---- MODULE Spec2Model ----
(***************************************************************************)
(* A model of the IPLD inline-links traversal engines of expede/ipld-inline *)
(* (crate inline_ipld): the post-order iterator PostOrderIpldIter, the      *)
(* Extractor built on a Peekable of it, the Store and the inliners.         *)
(*                                                                          *)
(* An Ipld value is a record tagged by `t`.  A Map is the sequence of its   *)
(* entries in key order, as a BTreeMap<String, Ipld> iterates them.  The    *)
(* references &'a Ipld that the iterator holds are modelled as paths        *)
(* (sequences of child indices) into the document they point into.          *)
(***************************************************************************)
EXTENDS Integers, Sequences, FiniteSets, TLC

VARIABLES
    doc,        \* the Ipld handed to the constructors
    cfg,        \* the (codec, digester, cid_version) handed to Extractor::new
    inbound,    \* PostOrderIpldIter.inbound of the walk driven directly
    outbound,   \* PostOrderIpldIter.outbound of the walk driven directly
    yielded,    \* what the successive next() calls on that walk returned (Some)
    pastEnd,    \* how many next() calls on that walk returned None
    exIter,     \* Extractor.iterator : Peekable<PostOrderIpldIter>
    exStack,    \* Extractor.stack
    exOut,      \* the pairs Extractor::next has returned, in order
    exEnded,    \* how many Extractor::next calls returned None
    exPanic,    \* TRUE once an expect / split_off / panic! of Extractor::next fired
    store,      \* the Store: BTreeMap<Cid, Ipld>
    policy,     \* which inliner the caller constructs
    phase,      \* how far the caller of extract / inline / extract has come
    rtPairs,    \* the pairs the Extractor yielded inside Store::extract
    rtInlined,  \* what the inliner's run returned
    rtPairs2,   \* the pairs of the Extractor run on the inlined node
    il,         \* the inliner driven through the Stuck protocol: walk, stack, needs, seen
    ilHandles,  \* the Stuck handles that are alive, each holding the inliner
    ilLast,     \* the last call made on the inliner or on a handle, and what it returned
    ilAnswers,  \* what each resumed suspension spliced, with the position of its Link
    ilIdle,     \* how many run / next calls returned None
    stKind,     \* which Store implementation the caller of the Store holds
    stTombstones, \* AtMostOnceStore.tombstones
    stLast,     \* the last call made on the Store and what it returned
    stLog,      \* the put_keyed calls made on the Store, in order
    delim,      \* the last call a caller made on a Peekable walk, and its result
    conv        \* a multicodec tag and the conversions a caller made of it

vars == <<doc, cfg, inbound, outbound, yielded, pastEnd,
          exIter, exStack, exOut, exEnded, exPanic,
          store, policy, phase, rtPairs, rtInlined, rtPairs2,
          il, ilHandles, ilLast, ilAnswers, ilIdle,
          stKind, stTombstones, stLast, stLog, delim, conv>>

walkVars == <<inbound, outbound, yielded, pastEnd>>
exVars   == <<exIter, exStack, exOut, exEnded, exPanic, delim, conv>>
rtVars   == <<store, policy, phase, rtPairs, rtInlined, rtPairs2>>
ilVars   == <<il, ilHandles, ilLast, ilAnswers, ilIdle>>
stVars   == <<stKind, stTombstones, stLast, stLog>>

(***************************************************************************)
(* Bounds of the model                                                      *)
(***************************************************************************)
MaxNest == 2        \* layers of wrapping around a seed in the input documents
MaxExtraCalls == 2  \* next() calls made after an iterator has returned None

(***************************************************************************)
(* Option<T>                                                                *)
(***************************************************************************)
None == [some |-> FALSE]
Some(x) == [some |-> TRUE, val |-> x]

Front(s) == SubSeq(s, 1, Len(s) - 1)
Last(s) == s[Len(s)]

(***************************************************************************)
(* libipld::ipld::Ipld                                                      *)
(***************************************************************************)
Null == [t |-> "null"]
Integer(i) == [t |-> "int", i |-> i]
Link(c) == [t |-> "link", cid |-> c]
List(xs) == [t |-> "list", xs |-> xs]
Map(kv) == [t |-> "map", kv |-> kv]
Entry(k, v) == [k |-> k, v |-> v]

\* String's Ord on the keys the model uses: byte-lexicographic, "/" = 0x2F first.
KeyOrder == <<"/", "data", "link", "z">>
KeyRank(k) == CHOOSE i \in 1..Len(KeyOrder) : KeyOrder[i] = k
KeyLess(a, b) == KeyRank(a) < KeyRank(b)

\* BTreeMap::insert on the entry sequence: replace an equal key, else insert in order.
BTreeInsert(kv, k, v) ==
    LET below == SelectSeq(kv, LAMBDA e : KeyLess(e.k, k))
        above == SelectSeq(kv, LAMBDA e : KeyLess(k, e.k))
    IN  below \o <<Entry(k, v)>> \o above

\* Iterator::zip(keys, vals).collect::<BTreeMap>(): zip stops at the shorter side.
RECURSIVE CollectFrom(_, _, _, _)
CollectFrom(keys, vals, i, acc) ==
    IF i > Len(keys) \/ i > Len(vals) THEN acc
    ELSE CollectFrom(keys, vals, i + 1, BTreeInsert(acc, keys[i], vals[i]))
ZipCollect(keys, vals) == CollectFrom(keys, vals, 1, <<>>)

\* btree.keys() and btree.values(): in key order.
MapKeys(n) == [i \in 1..Len(n.kv) |-> n.kv[i].k]
MapValues(n) == [i \in 1..Len(n.kv) |-> n.kv[i].v]
MapGet(n, k) ==
    IF \E i \in 1..Len(n.kv) : n.kv[i].k = k
    THEN Some(n.kv[CHOOSE i \in 1..Len(n.kv) : n.kv[i].k = k].v)
    ELSE None

\* The nodes a List or Map holds, in iteration order; none for the other kinds.
Children(n) ==
    IF n.t = "list" THEN n.xs
    ELSE IF n.t = "map" THEN MapValues(n)
    ELSE <<>>

RECURSIVE NodeAt(_, _)
NodeAt(n, p) == IF p = <<>> THEN n ELSE NodeAt(Children(n)[p[1]], Tail(p))

\* The references to the children of the node at p, in iteration order.
ChildPathsRev(d, p) ==
    LET n == Len(Children(NodeAt(d, p)))
    IN  [i \in 1..n |-> Append(p, n + 1 - i)]
ChildPaths(d, p) ==
    [i \in 1..Len(Children(NodeAt(d, p))) |-> Append(p, i)]

(***************************************************************************)
(* cid::new: encode with the codec, digest, build the Cid.  The digest is   *)
(* taken collision free: the multihash stands for the bytes it hashes, and  *)
(* the bytes for the node and the codec that encoded it.                    *)
(***************************************************************************)
DagCborCodec == 113   \* 0x71
DagJsonCodec == 297   \* 0x0129
RawCodec == 85        \* 0x55
DagPbCodec == 112     \* 0x70
Sha2_256 == "sha2-256"
Blake3_256 == "blake3-256"
V0 == "V0"
V1 == "V1"

\* Cid::new(version, codec, multihash): a version 0 id is DAG-PB with a
\* sha2-256 multihash, anything else is refused
CidGenericNew(version, codec, mh) ==
    IF version = V0 /\ codec # DagPbCodec THEN [ok |-> FALSE, err |-> "InvalidCidV0Codec"]
    ELSE IF version = V0 /\ mh.code # Sha2_256
    THEN [ok |-> FALSE, err |-> "InvalidCidV0Multihash"]
    ELSE [ok |-> TRUE, val |-> [version |-> version, codec |-> codec, mh |-> mh]]

CidNew(ipld, codec, digester, version) ==
    [version |-> version, codec |-> codec,
     mh |-> [code |-> digester, bytes |-> <<codec, ipld>>]]

Configs ==
    {[codec |-> c, digester |-> Sha2_256, version |-> V1] :
        c \in {DagCborCodec, DagJsonCodec}}

CidOf(ipld, c) == CidNew(ipld, c.codec, c.digester, c.version)

\* cid.rs 46-47: the expect on the result of CidGeneric::new
CidNewPanics(ipld, c) ==
    ~CidGenericNew(c.version, c.codec,
                   [code |-> c.digester, bytes |-> <<c.codec, ipld>>]).ok

\* every default the Extractor can be given with a total codec
AnyConfigs ==
    {[codec |-> c, digester |-> d, version |-> v] :
        c \in {DagCborCodec, DagJsonCodec}, d \in {Sha2_256, Blake3_256}, v \in {V0, V1}}

(***************************************************************************)
(* The input documents: a seed wrapped in at most MaxNest layers.           *)
(***************************************************************************)
CidA == CidNew(Integer(1), DagCborCodec, Sha2_256, V1)

Seeds == {Integer(1), Link(CidA), List(<<>>), Map(<<>>)}

Wrap(x) ==
    { List(<<x, x>>),
      List(<<Map(<<Entry("/", Map(<<Entry("data", List(<<>>)),
                                    Entry("link", Link(CidA))>>))>>), x>>),
      Map(<<Entry("data", Integer(1)), Entry("link", x)>>),
      Map(<<Entry("/", x)>>),
      Map(<<Entry("/", Map(<<Entry("data", x)>>))>>),
      Map(<<Entry("/", Map(<<Entry("data", x), Entry("link", Link(CidA))>>))>>),
      Map(<<Entry("/", Map(<<Entry("data", Integer(1)), Entry("link", x)>>))>>),
      Map(<<Entry("/", Map(<<Entry("data", x), Entry("z", Integer(1))>>))>>),
      Map(<<Entry("/", Map(<<Entry("data", x), Entry("link", Link(CidA)),
                             Entry("z", Integer(1))>>))>>),
      Map(<<Entry("/", Map(<<Entry("link", x)>>))>>),
      Map(<<Entry("/", Map(<<Entry("data", x)>>)), Entry("z", Integer(1))>>) }

RECURSIVE DocsUpTo(_)
DocsUpTo(n) ==
    IF n = 0 THEN Seeds
    ELSE LET prev == DocsUpTo(n - 1) IN prev \cup UNION {Wrap(x) : x \in prev}

Docs == DocsUpTo(MaxNest)

(***************************************************************************)
(* PostOrderIpldIter                                                        *)
(***************************************************************************)
\* PostOrderIpldIter::new
PostOrderNew == [inbound |-> <<(<<>>)>>, outbound |-> <<>>]

\* Vec::pop on outbound, as the result of next()
OutboundPopFront(inb, outb) ==
    IF outb = <<>> THEN [inbound |-> inb, outbound |-> outb, item |-> None]
    ELSE [inbound |-> inb, outbound |-> Tail(outb), item |-> Some(Head(outb))]
OutboundPop(inb, outb) ==
    IF outb = <<>> THEN [inbound |-> inb, outbound |-> outb, item |-> None]
    ELSE [inbound |-> inb, outbound |-> Front(outb), item |-> Some(Last(outb))]

\* PostOrderIpldIter::next: the loop runs until inbound is empty.
RECURSIVE PostOrderNext(_, _, _)
PostOrderNext(d, inb, outb) ==
    IF inb = <<>> THEN OutboundPop(inb, outb)
    ELSE LET p == Last(inb)
             n == NodeAt(d, p)
         IN  IF n.t \in {"map", "list"}
             THEN PostOrderNext(d, Front(inb) \o ChildPaths(d, p), Append(outb, p))
             ELSE PostOrderNext(d, Front(inb), Append(outb, p))

(***************************************************************************)
(* core::iter::Peekable<PostOrderIpldIter>                                  *)
(***************************************************************************)
\* Iterator::peekable: nothing peeked yet
PeekableNew ==
    [inbound |-> PostOrderNew.inbound, outbound |-> PostOrderNew.outbound,
     peeked |-> None]

\* Peekable::next: the peeked item if there is one, else the iterator's next
PeekableNextDropsPeeked(d, it) ==
    LET r == PostOrderNext(d, it.inbound, it.outbound)
    IN  [iter |-> [inbound |-> r.inbound, outbound |-> r.outbound, peeked |-> None],
         item |-> r.item]
PeekableNext(d, it) ==
    IF it.peeked.some
    THEN [iter |-> [it EXCEPT !.peeked = None], item |-> it.peeked.val]
    ELSE LET r == PostOrderNext(d, it.inbound, it.outbound)
         IN  [iter |-> [inbound |-> r.inbound, outbound |-> r.outbound, peeked |-> None],
              item |-> r.item]

\* Peekable::peek: fills the peeked slot from the iterator when it is empty
PeekablePeek(d, it) ==
    IF it.peeked.some
    THEN [iter |-> it, item |-> it.peeked.val]
    ELSE LET r == PostOrderNext(d, it.inbound, it.outbound)
         IN  [iter |-> [inbound |-> r.inbound, outbound |-> r.outbound,
                        peeked |-> Some(r.item)],
              item |-> r.item]

\* is_delimiter_next: the next node is a Map whose keys are exactly ["/"]
IsDelimiterNextAnyMap(d, it) ==
    LET pk == PeekablePeek(d, it)
    IN  [iter |-> pk.iter,
         result |-> pk.item.some /\ NodeAt(d, pk.item.val).t = "map"]
IsDelimiterNextHasSlash(d, it) ==
    LET pk == PeekablePeek(d, it)
    IN  [iter |-> pk.iter,
         result |-> /\ pk.item.some
                    /\ NodeAt(d, pk.item.val).t = "map"
                    /\ MapGet(NodeAt(d, pk.item.val), "/").some]
IsDelimiterNext(d, it) ==
    LET pk == PeekablePeek(d, it)
    IN  [iter |-> pk.iter,
         result |-> /\ pk.item.some
                    /\ NodeAt(d, pk.item.val).t = "map"
                    /\ MapKeys(NodeAt(d, pk.item.val)) = <<"/">>]

(***************************************************************************)
(* Extractor                                                                *)
(***************************************************************************)
\* What one Extractor::next call leaves behind and returns.  `at` records the
\* node the call skipped with `self.iterator.next()` when it returned a pair.
ExResult(it, stack, item, panic) ==
    [iter |-> it, stack |-> stack, item |-> item, panic |-> panic]
Pair(cid, node, at) == [cid |-> cid, node |-> node, at |-> at]

\* Vec::split_off(len - n): the top n entries, in order
SplitTop(stack, n) == SubSeq(stack, Len(stack) - n + 1, Len(stack))
SplitRest(stack, n) == SubSeq(stack, 1, Len(stack) - n)

\* extractor.rs 72-78: the walk is over, the root is what the stack holds
ExFinishNoCid(it, stack, c) ==
    IF stack = <<>> THEN ExResult(it, stack, None, FALSE)
    ELSE ExResult(it, Front(stack),
                  Some(Pair(CidA, Last(stack), None)), FALSE)
ExFinish(it, stack, c) ==
    IF stack = <<>> THEN ExResult(it, stack, None, FALSE)
    ELSE IF CidNewPanics(Last(stack), c) THEN ExResult(it, Front(stack), None, TRUE)
    ELSE ExResult(it, Front(stack),
                  Some(Pair(CidOf(Last(stack), c), Last(stack), None)), FALSE)

\* extractor.rs 89-101: {"data": d} under a "/" map
ExInheritKeepMap(d, c, it, stack) ==
    LET skip == PeekableNext(d, it)
    IN  IF stack = <<>> THEN ExResult(skip.iter, stack, None, TRUE)
        ELSE LET node == Last(stack)
                 cid == CidOf(node, c)
             IN  ExResult(skip.iter, stack, Some(Pair(cid, node, skip.item)), FALSE)
ExInherit(d, c, it, stack) ==
    LET skip == PeekableNext(d, it)
    IN  IF stack = <<>> THEN ExResult(skip.iter, stack, None, TRUE)
        ELSE IF CidNewPanics(Last(stack), c)
        THEN ExResult(skip.iter, Front(stack), None, TRUE)
        ELSE LET node == Last(stack)
                 cid == CidOf(node, c)
             IN  ExResult(skip.iter, Append(Front(stack), Link(cid)),
                          Some(Pair(cid, node, skip.item)), FALSE)

\* extractor.rs 105-116: {"data": d, "link": Link(cid)} under a "/" map
ExExplicitRecompute(d, c, it, stack) ==
    LET skip == PeekableNext(d, it)
    IN  IF stack = <<>> \/ Last(stack).t # "link" THEN ExResult(skip.iter, stack, None, TRUE)
        ELSE IF Front(stack) = <<>> THEN ExResult(skip.iter, Front(stack), None, TRUE)
        ELSE LET node == Last(Front(stack))
                 cid == CidOf(node, c)
             IN  ExResult(skip.iter, Append(Front(Front(stack)), Link(cid)),
                          Some(Pair(cid, node, skip.item)), FALSE)
ExExplicitKeepsData(d, c, it, stack) ==
    LET skip == PeekableNext(d, it)
    IN  IF stack = <<>> \/ Last(stack).t # "link" THEN ExResult(skip.iter, stack, None, TRUE)
        ELSE IF Front(stack) = <<>> THEN ExResult(skip.iter, Front(stack), None, TRUE)
        ELSE ExResult(skip.iter, stack,
                      Some(Pair(Last(stack).cid, Last(Front(stack)), skip.item)), FALSE)
ExExplicit(d, c, it, stack) ==
    LET skip == PeekableNext(d, it)
    IN  IF stack = <<>> \/ Last(stack).t # "link" THEN ExResult(skip.iter, stack, None, TRUE)
        ELSE IF Front(stack) = <<>> THEN ExResult(skip.iter, Front(stack), None, TRUE)
        ELSE LET link == Last(stack)
                 node == Last(Front(stack))
             IN  ExResult(skip.iter, Append(Front(Front(stack)), link),
                          Some(Pair(link.cid, node, skip.item)), FALSE)

\* extractor.rs 88: btree.get("data").is_some()
HasDataAlways(n) == TRUE
HasData(n) == MapGet(n, "data").some

\* extractor.rs 104: if let Some(Ipld::Link(_)) = btree.get("link")
LinkIsPresent(n) == MapGet(n, "link").some
LinkIsLink(n) == MapGet(n, "link").some /\ MapGet(n, "link").val.t = "link"

\* extractor.rs 70-133: Extractor::next
RECURSIVE ExtractorNext(_, _, _, _)
ExtractorNext(d, c, it, stack) ==
    LET nx == PeekableNext(d, it)
        n == NodeAt(d, nx.item.val)
        keys == MapKeys(n)
        rebuild(it2) ==
            IF Len(stack) < Len(keys) THEN ExResult(it2, stack, None, TRUE)
            ELSE ExtractorNext(d, c, it2,
                    Append(SplitRest(stack, Len(keys)),
                           Map(ZipCollect(keys, SplitTop(stack, Len(keys))))))
        dl == IsDelimiterNext(d, nx.iter)
    IN  IF ~nx.item.some THEN ExFinish(nx.iter, stack, c)
        ELSE IF n.t = "list" THEN
            IF Len(stack) < Len(n.xs) THEN ExResult(nx.iter, stack, None, TRUE)
            ELSE ExtractorNext(d, c, nx.iter,
                    Append(SplitRest(stack, Len(n.xs)), List(SplitTop(stack, Len(n.xs)))))
        ELSE IF n.t = "map" THEN
            IF HasData(n) /\ Len(keys) = 1 THEN
                IF dl.result THEN ExInherit(d, c, dl.iter, stack)
                ELSE rebuild(dl.iter)
            ELSE IF HasData(n) /\ Len(keys) = 2 THEN
                IF dl.result /\ LinkIsLink(n)
                THEN ExExplicit(d, c, dl.iter, stack)
                ELSE rebuild(dl.iter)
            ELSE rebuild(nx.iter)
        ELSE ExtractorNext(d, c, nx.iter, Append(stack, n))

(***************************************************************************)
(* Store (BTreeMap<Cid, Ipld>, MemoryStore)                                 *)
(***************************************************************************)
Ok(x) == [ok |-> TRUE, val |-> x]
Err(e) == [ok |-> FALSE, err |-> e]

StoreNew == <<>>
\* store/traits.rs 216-218: get
StoreGet(st, cid) == IF cid \in DOMAIN st THEN Ok(st[cid]) ELSE Err(cid)
\* put_keyed that keeps the first node put under an id
PutKeyedKeepsFirst(st, cid, ipld) == IF cid \in DOMAIN st THEN st ELSE (cid :> ipld) @@ st
\* store/traits.rs 220-222: put_keyed = BTreeMap::insert
PutKeyed(st, cid, ipld) == (cid :> ipld) @@ st

\* The run of one Extractor to exhaustion: the pairs it yields, in order.
RECURSIVE ExtractorCollect(_, _, _, _, _), ExtractorCollected(_, _, _, _)
ExtractorCollected(d, c, r, acc) ==
    IF r.panic THEN [pairs |-> acc, panic |-> TRUE]
    ELSE IF ~r.item.some THEN [pairs |-> acc, panic |-> FALSE]
    ELSE ExtractorCollect(d, c, r.iter, r.stack, Append(acc, r.item.val))
ExtractorCollect(d, c, it, stack, acc) ==
    ExtractorCollected(d, c, ExtractorNext(d, c, it, stack), acc)
ExtractorRun(d, c) == ExtractorCollect(d, c, PeekableNew, <<>>, <<>>)

\* store/traits.rs 200-212: Store::extract
RECURSIVE PutAll(_, _, _)
PutAll(st, pairs, i) ==
    IF i > Len(pairs) THEN st
    ELSE PutAll(PutKeyed(st, pairs[i].cid, pairs[i].node), pairs, i + 1)
\* an extract that starts from an empty store
StoreExtractFresh(st, d, c) == PutAll(StoreNew, ExtractorRun(d, c).pairs, 1)
StoreExtract(st, d, c) == PutAll(st, ExtractorRun(d, c).pairs, 1)

(***************************************************************************)
(* Inliners                                                                 *)
(***************************************************************************)
Policies == {"naive", "at_least_once", "at_most_once"}

\* The state of an inliner: the walk, the rebuild stack, ExactlyOnce.needs and
\* AtMostOnce.seen.
InlinerNew ==
    [inbound |-> PostOrderNew.inbound, outbound |-> PostOrderNew.outbound,
     stack |-> <<>>, needs |-> None, seen |-> {}]

\* ipld/inlined.rs 69-79 and at_least_once.rs 70-77: {"/": {"link": cid, "data": ipld}}
InlineWrapInherit(cid, ipld) ==
    Map(BTreeInsert(<<>>, "/", Map(BTreeInsert(<<>>, "data", ipld))))
InlineWrap(cid, ipld) ==
    Map(BTreeInsert(<<>>, "/",
        Map(BTreeInsert(BTreeInsert(<<>>, "link", Link(cid)), "data", ipld))))

IlResult(s, out, panic) == [state |-> s, out |-> out, panic |-> panic]

\* at_least_once.rs 66-102 and naive.rs 57-93: the walk of the inliner from
\* where it stands to the next missing block or the end.  InlinerMatch is the
\* body of the loop on the node po.next() returned, InlinerEnd what follows
\* the loop.
RECURSIVE InlinerKernel(_, _, _), InlinerMatch(_, _, _, _)
InlinerEnd(s) ==
    IF s.stack = <<>> THEN IlResult(s, None, FALSE)
    ELSE IlResult([s EXCEPT !.stack = Front(@)], Some(Ok(Last(s.stack))), FALSE)
InlinerLinkSkipsMissing(d, st, s, cid, got) ==
    InlinerKernel(d, st, [s EXCEPT !.stack =
        Append(@, IF got.ok THEN InlineWrap(cid, got.val) ELSE Link(cid))])
InlinerLinkUnexpanded(d, st, s, cid, got) ==
    IF got.ok
    THEN InlinerKernel(d, st, [s EXCEPT !.stack = Append(@, Link(cid))])
    ELSE IlResult(s, Some(Err(cid)), FALSE)
InlinerLinkStuckPushes(d, st, s, cid, got) ==
    IF got.ok
    THEN InlinerKernel(d, st, [s EXCEPT !.stack = Append(@, InlineWrap(cid, got.val))])
    ELSE IlResult([s EXCEPT !.stack = Append(@, Link(cid))], Some(Err(cid)), FALSE)
InlinerLinkDeep(d, st, s, cid, got) ==
    IF got.ok
    THEN InlinerKernel(d, st, [s EXCEPT !.stack =
            Append(@, InlineWrap(cid,
                IF got.val.t = "link" /\ StoreGet(st, got.val.cid).ok
                THEN InlineWrap(got.val.cid, StoreGet(st, got.val.cid).val)
                ELSE got.val))])
    ELSE IlResult(s, Some(Err(cid)), FALSE)
InlinerLink(d, st, s, cid, got) ==
    IF got.ok
    THEN InlinerKernel(d, st, [s EXCEPT !.stack = Append(@, InlineWrap(cid, got.val))])
    ELSE IlResult(s, Some(Err(cid)), FALSE)
InlinerMatch(d, st, s, n) ==
    IF n.t = "link" THEN InlinerLink(d, st, s, n.cid, StoreGet(st, n.cid))
    ELSE IF n.t \in {"map", "list"} THEN
        IF Len(s.stack) < Len(Children(n)) THEN IlResult(s, None, TRUE)
        ELSE InlinerKernel(d, st,
                [s EXCEPT !.stack =
                    Append(SplitRest(@, Len(Children(n))),
                           IF n.t = "map"
                           THEN Map(ZipCollect(MapKeys(n), SplitTop(@, Len(Children(n)))))
                           ELSE List(SplitTop(@, Len(Children(n)))))])
    ELSE InlinerKernel(d, st, [s EXCEPT !.stack = Append(@, n)])
InlinerWalked(d, st, s, r) ==
    IF r.item.some
    THEN InlinerMatch(d, st, [s EXCEPT !.inbound = r.inbound, !.outbound = r.outbound],
                      NodeAt(d, r.item.val))
    ELSE InlinerEnd([s EXCEPT !.inbound = r.inbound, !.outbound = r.outbound])
InlinerKernel(d, st, s) ==
    InlinerWalked(d, st, s, PostOrderNext(d, s.inbound, s.outbound))

\* at_least_once.rs 62-103: AtLeastOnce::run; Some(Err(_)) stands for the Stuck
AtLeastOnceRun(d, st, s) == InlinerKernel(d, st, s)

\* naive.rs 56-93: Naive::next
NaiveNext(d, st, s) == InlinerKernel(d, st, s)

\* ipld_inline exactly_once.rs 47-54: the match on what self.naive.next() returned
ExactlyOnceMatch(r) ==
    IF r.out.some /\ ~r.out.val.ok
    THEN IlResult([r.state EXCEPT !.needs = Some(r.out.val.err)], r.out, r.panic)
    ELSE r
\* ipld_inline exactly_once.rs 42-55: ExactlyOnce::next
ExactlyOnceNext(d, st, s) ==
    IF s.needs.some THEN IlResult(s, None, FALSE)
    ELSE ExactlyOnceMatch(NaiveNext(d, st, s))

\* at_most_once.rs 65-75: the match on what self.exactly_once.next() returned
AtMostOnceMatch(r) ==
    IF ~r.out.some THEN r
    ELSE IF ~r.out.val.ok THEN
        IF r.out.val.err \in r.state.seen
        THEN IlResult([r.state EXCEPT !.needs = None,
                                      !.stack = Append(@, Link(r.out.val.err))],
                      Some(Ok(Link(r.out.val.err))), r.panic)
        ELSE IlResult(r.state, None, r.panic)
    ELSE r
\* at_most_once.rs 61-77: AtMostOnce::next
AtMostOnceNext(d, st, s) == AtMostOnceMatch(ExactlyOnceNext(d, st, s))

\* inliner/traits.rs 69-74: Inliner::run = self.last(), for the iterator inliners
RECURSIVE IteratorLast(_, _, _, _, _)
InlinerNext(pol, d, st, s) ==
    IF pol = "naive" THEN NaiveNext(d, st, s)
    ELSE IF pol = "exactly_once" THEN ExactlyOnceNext(d, st, s)
    ELSE AtMostOnceNext(d, st, s)
IteratorLastOf(pol, d, st, r, last) ==
    IF r.panic THEN r
    ELSE IF ~r.out.some THEN IlResult(r.state, last, FALSE)
    ELSE IteratorLast(pol, d, st, r.state, r.out)
IteratorLast(pol, d, st, s, last) ==
    IteratorLastOf(pol, d, st, InlinerNext(pol, d, st, s), last)

InlinerRun(pol, d, st, s) ==
    IF pol = "at_least_once" THEN AtLeastOnceRun(d, st, s)
    ELSE IteratorLast(pol, d, st, s, None)

\* at_least_once.rs 49-52: AtLeastOnce::next is `self.needs?; self.po.next()`
AtLeastOnceYield(d, s, r) ==
    IlResult([s EXCEPT !.inbound = r.inbound, !.outbound = r.outbound],
             IF r.item.some THEN Some(Ok(NodeAt(d, r.item.val))) ELSE None, FALSE)
AtLeastOnceNext(d, s) ==
    IF ~s.needs.some THEN IlResult(s, None, FALSE)
    ELSE AtLeastOnceYield(d, s, PostOrderNext(d, s.inbound, s.outbound))

\* Iterator::next of the inliner of each policy
PolicyNext(pol, d, st, s) ==
    IF pol = "at_least_once" THEN AtLeastOnceNext(d, s)
    ELSE InlinerNext(pol, d, st, s)

(***************************************************************************)
(* Stuck (inliner/traits.rs 108-231)                                        *)
(***************************************************************************)
\* traits.rs 108-113: Inliner::stuck_at
StuckAt(needs) == [needs |-> needs]

\* traits.rs 120-125: a Stuck holds `inliner: &'a mut I`; while one is alive
\* the inliner cannot be used
BorrowedNever(handles) == FALSE
Borrowed(handles) == handles # <<>>

\* ipld_inline exactly_once.rs 63-66 (at_least_once.rs 57-60): interject
InterjectKeepsNeeds(s, ipld) == [s EXCEPT !.stack = Append(@, ipld)]
Interject(s, ipld) == [s EXCEPT !.needs = None, !.stack = Append(@, ipld)]
\* ipld_inline exactly_once.rs 59-61: store
InlinerStoreNothing(st, cid, ipld) == st
InlinerStore(st, cid, ipld) == PutKeyed(st, cid, ipld)

\* traits.rs 192-197: Stuck::stub
StuckStubBare(s, needs, ipld) == Interject(s, ipld)
StuckStub(s, needs, ipld) == Interject(s, InlineWrap(needs, ipld))
\* traits.rs 228-231: Stuck::ignore
StuckIgnoreDropsLink(s, needs) == [s EXCEPT !.needs = None]
StuckIgnore(s, needs) == Interject(s, Link(needs))
\* traits.rs 160-163: Stuck::resolve, the store it leaves
StuckResolveStoreKept(st, needs, ipld) == st
StuckResolveStoreAlone(st, needs, ipld) == InlinerStore(StoreNew, needs, ipld)
StuckResolveStore(st, needs, ipld) == InlinerStore(st, needs, ipld)

(***************************************************************************)
(* Initial state: the constructors have run on a document.                  *)
(***************************************************************************)
IlCall(op, pre, st, out, panic, needs, node) ==
    [op |-> op, pre |-> pre, store |-> st, out |-> out, panic |-> panic,
     needs |-> needs, node |-> node]

ConstructedInliner ==
    /\ il = InlinerNew
    /\ ilHandles = <<>>
    /\ ilLast = IlCall("new", InlinerNew, store, None, FALSE, None, None)
    /\ ilAnswers = <<>>
    /\ ilIdle = 0

\* a call on the Store: what was asked, the contents before it, what it returned
StCall(op, cid, pre, out) == [op |-> op, cid |-> cid, pre |-> pre, out |-> out]

\* a call on a Peekable walk: the walk before it and what it returned
PkCall(op, before, out) == [op |-> op, before |-> before, out |-> out]

\* a tag, the codec type it is converted to, and what try_from and from returned
Conversion(type, ccode, tried, back) ==
    [type |-> type, ccode |-> ccode, tried |-> tried, back |-> back]

StoreConstructed(kind) ==
    /\ stKind = kind
    /\ stTombstones = {}
    /\ stLast = StCall("new", None, StoreNew, None)
    /\ stLog = <<>>

ConstructedStore == StoreConstructed("btree")

ConstructedIters ==
    /\ inbound = PostOrderNew.inbound
    /\ outbound = PostOrderNew.outbound
    /\ yielded = <<>>
    /\ pastEnd = 0
    /\ exIter = PeekableNew
    /\ exStack = <<>>
    /\ exOut = <<>>
    /\ exEnded = 0
    /\ exPanic = FALSE
    /\ delim = PkCall("new", PeekableNew, None)
    /\ conv = Conversion("Total", DagCborCodec, None, None)
    /\ phase = "new"
    /\ rtPairs = <<>>
    /\ rtInlined = None
    /\ rtPairs2 = <<>>

ConstructedWalks ==
    /\ ConstructedStore
    /\ ConstructedIters

Constructed ==
    /\ store = StoreNew
    /\ ConstructedWalks
    /\ ConstructedInliner

DefaultConfig == [codec |-> DagCborCodec, digester |-> Sha2_256, version |-> V1]

InitWalk ==
    /\ doc \in Docs
    /\ cfg = DefaultConfig
    /\ policy = "at_least_once"
    /\ Constructed

InitExtract ==
    /\ doc \in Docs
    /\ cfg \in Configs
    /\ policy = "at_least_once"
    /\ Constructed

InitRoundTrip ==
    /\ doc \in Docs
    /\ cfg = DefaultConfig
    /\ policy \in Policies
    /\ Constructed

\* One call of PostOrderIpldIter::next by the caller.
PoiiNext ==
    /\ pastEnd < MaxExtraCalls
    /\ LET r == PostOrderNext(doc, inbound, outbound)
       IN  /\ inbound' = r.inbound
           /\ outbound' = r.outbound
           /\ yielded' = IF r.item.some THEN Append(yielded, r.item.val) ELSE yielded
           /\ pastEnd' = IF r.item.some THEN pastEnd ELSE pastEnd + 1
    /\ UNCHANGED <<doc, cfg>>
    /\ UNCHANGED exVars
    /\ UNCHANGED ilVars
    /\ UNCHANGED stVars
    /\ UNCHANGED rtVars

NextWalk == PoiiNext
SpecWalk == InitWalk /\ [][NextWalk]_vars

\* One call of Extractor::next by the caller.
ExNext ==
    /\ exEnded < MaxExtraCalls
    /\ ~exPanic
    /\ LET r == ExtractorNext(doc, cfg, exIter, exStack)
       IN  /\ exIter' = r.iter
           /\ exStack' = r.stack
           /\ exPanic' = r.panic
           /\ exOut' = IF r.item.some THEN Append(exOut, r.item.val) ELSE exOut
           /\ exEnded' = IF r.item.some \/ r.panic THEN exEnded ELSE exEnded + 1
    /\ UNCHANGED <<doc, cfg, delim, conv>>
    /\ UNCHANGED walkVars
    /\ UNCHANGED rtVars
    /\ UNCHANGED ilVars
    /\ UNCHANGED stVars

NextExtract == ExNext
SpecExtract == InitExtract /\ [][NextExtract]_vars

\* the Extractor given any digest and id version
InitExtractAny ==
    /\ doc \in Docs
    /\ cfg \in AnyConfigs
    /\ policy = "at_least_once"
    /\ Constructed

SpecExtractAny == InitExtractAny /\ [][NextExtract]_vars

\* The caller runs Store::extract on the document.
RtExtract ==
    /\ phase = "new"
    /\ rtPairs' = ExtractorRun(doc, cfg).pairs
    /\ store' = StoreExtract(store, doc, cfg)
    /\ phase' = IF ExtractorRun(doc, cfg).panic THEN "panic" ELSE "extracted"
    /\ UNCHANGED <<doc, cfg, policy, rtInlined, rtPairs2>>
    /\ UNCHANGED walkVars
    /\ UNCHANGED exVars
    /\ UNCHANGED ilVars
    /\ UNCHANGED stVars

\* The caller constructs the inliner of its policy on the root block and runs it.
RtInlined(r) ==
    /\ rtInlined' = r.out
    /\ phase' = IF r.panic THEN "panic"
                ELSE IF r.out.some /\ r.out.val.ok THEN "inlined"
                ELSE "stuck"
RtInline ==
    /\ phase = "extracted"
    /\ RtInlined(InlinerRun(policy, Last(rtPairs).node, store, InlinerNew))
    /\ UNCHANGED <<doc, cfg, policy, store, rtPairs, rtPairs2>>
    /\ UNCHANGED walkVars
    /\ UNCHANGED exVars
    /\ UNCHANGED ilVars
    /\ UNCHANGED stVars

\* The caller runs an Extractor with the same defaults on the inlined node.
RtExtractedAgain(run) ==
    /\ rtPairs2' = run.pairs
    /\ phase' = IF run.panic THEN "panic" ELSE "reextracted"
RtExtractAgain ==
    /\ phase = "inlined"
    /\ RtExtractedAgain(ExtractorRun(rtInlined.val.val, cfg))
    /\ UNCHANGED <<doc, cfg, policy, store, rtPairs, rtInlined>>
    /\ UNCHANGED walkVars
    /\ UNCHANGED exVars
    /\ UNCHANGED ilVars
    /\ UNCHANGED stVars

NextRoundTrip == RtExtract \/ RtInline \/ RtExtractAgain
SpecRoundTrip == InitRoundTrip /\ [][NextRoundTrip]_vars

(***************************************************************************)
(* Reference notions the properties are stated with                         *)
(***************************************************************************)
IsPrefix(p, q) == Len(p) <= Len(q) /\ SubSeq(q, 1, Len(p)) = p
IsProperPrefix(p, q) == Len(p) < Len(q) /\ SubSeq(q, 1, Len(p)) = p

\* Every position of the tree n, n itself being at p.
RECURSIVE PathsFrom(_, _)
PathsFrom(n, p) ==
    {p} \cup UNION {PathsFrom(Children(n)[i], Append(p, i)) : i \in 1..Len(Children(n))}
AllPaths(d) == PathsFrom(d, <<>>)

\* The recursive left-to-right post-order listing of the positions of n.
RECURSIVE PostOrderOf(_, _), PostOrderOfKids(_, _, _)
PostOrderOfKids(n, p, i) ==
    IF i > Len(Children(n)) THEN <<>>
    ELSE PostOrderOf(Children(n)[i], Append(p, i)) \o PostOrderOfKids(n, p, i + 1)
PostOrderOf(n, p) == PostOrderOfKids(n, p, 1) \o <<p>>

(***************************************************************************)
(* C1: in the sequence PostOrderIpldIter yields, every proper descendant    *)
(* of a yielded node has been yielded before that node.                     *)
(***************************************************************************)
C1_DescendantsBeforeAncestor ==
    \A j \in 1..Len(yielded) :
        \A q \in AllPaths(doc) :
            IsProperPrefix(yielded[j], q) =>
                \E i \in 1..(j - 1) : yielded[i] = q

\* a composite with two children, one of them composite too, was yielded
C1_Witness ==
    /\ \E j \in 1..Len(yielded) : yielded[j] = <<>>
    /\ Len(Children(doc)) >= 2
    /\ \E q \in AllPaths(doc) : Len(q) >= 2

(***************************************************************************)
(* C2: the successive next() results are the reference post-order listing:  *)
(* a prefix of it while the walk runs, all of it (root last, each position  *)
(* once) from the first None on, and nothing but None after that.           *)
(***************************************************************************)
C2_EqualsReferencePostOrder ==
    /\ IsPrefix(yielded, PostOrderOf(doc, <<>>))
    /\ pastEnd > 0 => yielded = PostOrderOf(doc, <<>>)

\* a tree with siblings and depth was walked to the end and called again
C2_Witness ==
    /\ pastEnd >= 2
    /\ Last(yielded) = <<>>
    /\ Len(Children(doc)) >= 2
    /\ \E q \in AllPaths(doc) : Len(q) >= 2

(***************************************************************************)
(* Reference notions for the Extractor's properties                         *)
(***************************************************************************)
\* An inline delimiter, by shape: {"/": {"data": _}} or {"/": {"data": _, "link": Link}}
IsInheritForm(n) ==
    /\ n.t = "map"
    /\ MapKeys(n) = <<"/">>
    /\ n.kv[1].v.t = "map"
    /\ MapKeys(n.kv[1].v) = <<"data">>
IsExplicitForm(n) ==
    /\ n.t = "map"
    /\ MapKeys(n) = <<"/">>
    /\ n.kv[1].v.t = "map"
    /\ MapKeys(n.kv[1].v) = <<"data", "link">>
    /\ n.kv[1].v.kv[2].v.t = "link"
IsDelimiter(n) == IsInheritForm(n) \/ IsExplicitForm(n)
DelimiterData(n) == n.kv[1].v.kv[1].v
DeclaredLink(n) == n.kv[1].v.kv[2].v.cid
DataPath(p) == p \o <<1, 1>>

DelimiterPaths(d) == {p \in AllPaths(d) : IsDelimiter(NodeAt(d, p))}
HasSlashKey(n) == n.t = "map" /\ \E i \in 1..Len(n.kv) : n.kv[i].k = "/"

\* The document with every delimiter rewritten to the Link of its id, bottom up.
RECURSIVE Rewritten(_, _), DelimiterId(_, _)
Rewritten(n, c) ==
    IF IsDelimiter(n) THEN Link(DelimiterId(n, c))
    ELSE IF n.t = "list" THEN List([i \in 1..Len(n.xs) |-> Rewritten(n.xs[i], c)])
    ELSE IF n.t = "map"
         THEN Map([i \in 1..Len(n.kv) |-> Entry(n.kv[i].k, Rewritten(n.kv[i].v, c))])
    ELSE n
DelimiterId(n, c) ==
    IF IsExplicitForm(n) THEN DeclaredLink(n)
    ELSE CidOf(Rewritten(DelimiterData(n), c), c)

\* The positions of the pairs emitted so far for the source node at p.
PairsAt(p) == {i \in 1..Len(exOut) : exOut[i].at = Some(p)}
RootPairs == {i \in 1..Len(exOut) : ~exOut[i].at.some}

(***************************************************************************)
(* C3: the last pair emitted before the Extractor ends is the rewritten     *)
(* root with its id under the defaults, also when the root is a delimiter   *)
(* (the rewritten root is then a Link).                                     *)
(***************************************************************************)
C3_RootPairIsLast ==
    exEnded > 0 =>
        /\ exOut # <<>>
        /\ Last(exOut).node = Rewritten(doc, cfg)
        /\ Last(exOut).cid = CidOf(Rewritten(doc, cfg), cfg)

\* the root was a delimiter and the run ended
C3_Witness ==
    /\ exEnded > 0
    /\ IsDelimiter(doc)
    /\ Last(exOut).node.t = "link"
    /\ Len(exOut) >= 2

(***************************************************************************)
(* C4: a document without inline delimiter gives exactly one pair, the      *)
(* unmodified input with its id under the defaults, and then the end.       *)
(***************************************************************************)
C4_IdentityWithoutDelimiter ==
    DelimiterPaths(doc) = {} =>
        /\ ~exPanic
        /\ Len(exOut) <= 1
        /\ exOut # <<>> => exOut[1].node = doc /\ exOut[1].cid = CidOf(doc, cfg)
        /\ exEnded > 0 => Len(exOut) = 1

\* a delimiter-free document with a "/" key somewhere was extracted to the end
C4_Witness ==
    /\ DelimiterPaths(doc) = {}
    /\ exEnded > 0
    /\ \E p \in AllPaths(doc) : HasSlashKey(NodeAt(doc, p))

(***************************************************************************)
(* C5: the id of the root pair and of a pair from an inherit-form delimiter *)
(* is the id of its node under the defaults; the id of a pair from an       *)
(* explicit-form delimiter is the link the source declares, as it stands.   *)
(***************************************************************************)
C5_PairIds ==
    \A i \in 1..Len(exOut) :
        LET e == exOut[i] IN
        IF ~e.at.some THEN e.cid = CidOf(e.node, cfg)
        ELSE LET s == NodeAt(doc, e.at.val) IN
             /\ IsInheritForm(s) => e.cid = CidOf(e.node, cfg)
             /\ IsExplicitForm(s) => e.cid = DeclaredLink(s)

\* an explicit-form pair whose declared id is not the id of its data, and an
\* inherit-form pair, in a finished run
C5_Witness ==
    /\ exEnded > 0
    /\ \E i \in 1..Len(exOut) :
          /\ exOut[i].at.some
          /\ IsExplicitForm(NodeAt(doc, exOut[i].at.val))
          /\ exOut[i].cid # CidOf(exOut[i].node, cfg)
    /\ \E i \in 1..Len(exOut) :
          /\ exOut[i].at.some
          /\ IsInheritForm(NodeAt(doc, exOut[i].at.val))

(***************************************************************************)
(* C6: one pair per delimiter of the source and one for the root, no more   *)
(* and no fewer, equal subgraphs and equal ids included.                    *)
(***************************************************************************)
C6_OnePairPerDelimiter ==
    /\ \A p \in DelimiterPaths(doc) : Cardinality(PairsAt(p)) <= 1
    /\ Cardinality(RootPairs) <= 1
    /\ exEnded > 0 =>
          /\ Len(exOut) = Cardinality(DelimiterPaths(doc)) + 1
          /\ \A p \in DelimiterPaths(doc) : Cardinality(PairsAt(p)) = 1

\* two delimiters carrying the same subgraph under the same id, both emitted
C6_Witness ==
    /\ exEnded > 0
    /\ \E i, j \in 1..Len(exOut) :
          /\ i < j
          /\ exOut[i].at.some /\ exOut[j].at.some
          /\ exOut[i].cid = exOut[j].cid
          /\ exOut[i].node = exOut[j].node

(***************************************************************************)
(* C7: when a pair is emitted, the pair of every delimiter lying inside the *)
(* source it was built from has been emitted strictly before it.            *)
(***************************************************************************)
C7_InnerPairsFirst ==
    \A j \in 1..Len(exOut) :
        \A p \in DelimiterPaths(doc) :
            (~exOut[j].at.some \/ IsProperPrefix(exOut[j].at.val, p)) =>
                \E i \in 1..(j - 1) : exOut[i].at = Some(p)

\* a delimiter nested in another delimiter's data: inner pair, outer pair, root
C7_Witness ==
    \E i, j \in 1..Len(exOut) :
        /\ i < j
        /\ exOut[i].at.some /\ exOut[j].at.some
        /\ IsProperPrefix(exOut[j].at.val, exOut[i].at.val)
        /\ exEnded > 0

(***************************************************************************)
(* C8: the node of a pair is the source it was built from (the document for *)
(* the root pair, the "data" of its delimiter otherwise) in which every     *)
(* outermost delimiter is replaced, in place, by the Link of the id that    *)
(* was emitted for that delimiter, and nothing else is changed.             *)
(***************************************************************************)
Missing == [t |-> "missing"]
EmittedLink(p) ==
    IF PairsAt(p) = {} THEN Missing
    ELSE Link(exOut[CHOOSE i \in PairsAt(p) : TRUE].cid)

RECURSIVE WithEmittedLinks(_, _)
WithEmittedLinks(n, p) ==
    IF IsDelimiter(n) THEN EmittedLink(p)
    ELSE IF n.t = "list"
         THEN List([i \in 1..Len(n.xs) |-> WithEmittedLinks(n.xs[i], Append(p, i))])
    ELSE IF n.t = "map"
         THEN Map([i \in 1..Len(n.kv) |->
                    Entry(n.kv[i].k, WithEmittedLinks(n.kv[i].v, Append(p, i)))])
    ELSE n

SourceOf(e) == IF e.at.some THEN DataPath(e.at.val) ELSE <<>>

C8_DelimitersReplacedInPlace ==
    \A j \in 1..Len(exOut) :
        exOut[j].node = WithEmittedLinks(NodeAt(doc, SourceOf(exOut[j])), SourceOf(exOut[j]))

\* a pair whose node holds, at a list position or map key after the first, the
\* Link that replaced a delimiter of the source
C8_Witness ==
    \E j \in 1..Len(exOut) :
        LET src == NodeAt(doc, SourceOf(exOut[j])) IN
        /\ Len(Children(src)) >= 2
        /\ IsDelimiter(Children(src)[2])
        /\ Children(exOut[j].node)[2].t = "link"
        /\ Children(exOut[j].node)[1] = Children(src)[1]

(***************************************************************************)
(* C9: a pair is emitted for a map exactly when the map is a delimiter by   *)
(* shape; any other map with a "/" key emits no pair and is still a map     *)
(* with the same keys, at the same place, in the emitted node enclosing it. *)
(***************************************************************************)
\* the pairs whose source encloses position p, innermost last in emission order
Enclosing(p) ==
    {j \in 1..Len(exOut) : IsPrefix(SourceOf(exOut[j]), p)}
Innermost(p) ==
    CHOOSE j \in Enclosing(p) :
        \A k \in Enclosing(p) : Len(SourceOf(exOut[k])) <= Len(SourceOf(exOut[j]))
RelativeTo(p, base) == SubSeq(p, Len(base) + 1, Len(p))

RECURSIVE NodeAtOrMissing(_, _)
NodeAtOrMissing(n, p) ==
    IF p = <<>> THEN n
    ELSE IF p[1] \in 1..Len(Children(n)) THEN NodeAtOrMissing(Children(n)[p[1]], Tail(p))
    ELSE Missing

C9_DelimiterRecognition ==
    /\ \A i \in 1..Len(exOut) :
          exOut[i].at.some => IsDelimiter(NodeAt(doc, exOut[i].at.val))
    /\ exEnded > 0 =>
          \A p \in AllPaths(doc) :
              LET n == NodeAt(doc, p) IN
              /\ IsDelimiter(n) => PairsAt(p) # {}
              /\ (HasSlashKey(n) /\ ~IsDelimiter(n)) =>
                    /\ PairsAt(p) = {}
                    /\ Enclosing(p) # {}
                    /\ LET e == exOut[Innermost(p)]
                           m == NodeAtOrMissing(e.node, RelativeTo(p, SourceOf(e)))
                       IN  m.t = "map" /\ MapKeys(m) = MapKeys(n)

\* a finished run over a document holding a delimiter and, inside a delimiter's
\* data, a "/" map that is none
C9_Witness ==
    /\ exEnded > 0
    /\ \E p, q \in AllPaths(doc) :
          /\ IsDelimiter(NodeAt(doc, q))
          /\ IsPrefix(DataPath(q), p)
          /\ HasSlashKey(NodeAt(doc, p))
          /\ ~IsDelimiter(NodeAt(doc, p))

(***************************************************************************)
(* C10: extract, populate the store, inline the root block, extract again   *)
(***************************************************************************)
\* the (id, node) pairs as the caller sees them
Plain(pairs) == [i \in 1..Len(pairs) |-> [cid |-> pairs[i].cid, node |-> pairs[i].node]]

\* C10 as stated: whatever the document and the policy, the second
\* extraction yields exactly the pairs of the first.
C10_Original_RoundTripAlways ==
    phase = "reextracted" => Plain(rtPairs2) = Plain(rtPairs)

\* No delimiter lies in the data of another one.
NoNestedDelimiter(d) ==
    \A p, q \in DelimiterPaths(d) : ~IsProperPrefix(p, q)
\* Every Link of the document lies inside a delimiter.
NoLinkOutsideDelimiter(d) ==
    \A p \in AllPaths(d) :
        NodeAt(d, p).t = "link" => \E q \in DelimiterPaths(d) : IsProperPrefix(q, p)
\* Delimiters with the same id carry the same data.
SameIdSameData(d, c) ==
    \A p, q \in DelimiterPaths(d) :
        DelimiterId(NodeAt(d, p), c) = DelimiterId(NodeAt(d, q), c) =>
            Rewritten(DelimiterData(NodeAt(d, p)), c) = Rewritten(DelimiterData(NodeAt(d, q)), c)

RoundTripSafe(d, c) ==
    /\ NoNestedDelimiter(d)
    /\ NoLinkOutsideDelimiter(d)
    /\ SameIdSameData(d, c)

\* C10, amended: when no delimiter of the document lies inside another one,
\* no Link lies outside a delimiter and delimiters with equal ids carry equal
\* data, the inliner of every policy returns a node, and the Extractor run
\* on that node yields exactly the pairs of the first extraction.
C10_RoundTripFlat ==
    RoundTripSafe(doc, cfg) =>
        /\ phase \notin {"stuck", "panic"}
        /\ phase = "reextracted" => Plain(rtPairs2) = Plain(rtPairs)

\* a round trip over a document with two delimiters of both forms, finished
C10_Witness ==
    /\ phase = "reextracted"
    /\ RoundTripSafe(doc, cfg)
    /\ Len(rtPairs) >= 3
    /\ \E p \in DelimiterPaths(doc) : IsInheritForm(NodeAt(doc, p))
    /\ \E p \in DelimiterPaths(doc) : IsExplicitForm(NodeAt(doc, p))
    /\ policy = "at_most_once"


(***************************************************************************)
(* The inliners driven through the Stuck protocol                           *)
(***************************************************************************)
CidB == CidNew(Integer(2), DagCborCodec, Sha2_256, V1)

\* documents for the inliners: links to two ids, repeated and nested
IlSeeds == {Integer(1), Link(CidA)}
IlWrap(x) ==
    { List(<<Link(CidB), x>>),
      List(<<List(<<x>>), x>>),
      Map(<<Entry("data", Integer(1)), Entry("link", x)>>),
      Map(<<Entry("/", Map(<<Entry("data", x), Entry("link", Link(CidA))>>))>>) }
RECURSIVE IlDocsUpTo(_)
IlDocsUpTo(n) ==
    IF n = 0 THEN IlSeeds
    ELSE LET prev == IlDocsUpTo(n - 1) IN prev \cup UNION { IlWrap(x) : x \in prev }
IlDocs == IlDocsUpTo(MaxNest - 1)

\* stores: each id absent or present
IlStoresA == {StoreNew, PutKeyed(StoreNew, CidA, Link(CidB))}
IlStores == IlStoresA \cup { PutKeyed(st, CidB, Integer(7)) : st \in IlStoresA }
\* the nodes a caller answers a suspension with
IlNodes == {Integer(2), Link(CidB)}
IlPolicies == Policies \cup {"exactly_once"}

InitInline ==
    /\ doc \in IlDocs
    /\ cfg = DefaultConfig
    /\ policy \in IlPolicies
    /\ store \in IlStores
    /\ ConstructedWalks
    /\ ConstructedInliner

\* outbound as the first next() of the walk fills it; next() pops its end
OutboundFilledBy(r) == Append(r.outbound, r.item.val)
OutboundFilled(d) == OutboundFilledBy(PostOrderNext(d, PostOrderNew.inbound, PostOrderNew.outbound))
\* the position the walk yielded last: outbound holds what is still to come
StuckPosition(d, s) == PostOrderOf(d, <<>>)[Len(PostOrderOf(d, <<>>)) - Len(s.outbound)]

ilFrame == <<doc, cfg, policy, walkVars, exVars, phase, rtPairs, rtInlined, rtPairs2, stVars>>

IlReturned(op, r) ==
    /\ r.out.some \/ ilIdle < MaxExtraCalls
    /\ il' = r.state
    /\ ilHandles' = IF op = "run" /\ ~r.panic /\ r.out.some /\ ~r.out.val.ok
                     THEN Append(ilHandles, StuckAt(r.out.val.err))
                     ELSE ilHandles
    /\ ilLast' = IlCall(op, il, store, r.out, r.panic, None, None)
    /\ ilIdle' = IF r.out.some THEN ilIdle ELSE ilIdle + 1
    /\ UNCHANGED <<store, ilAnswers>>
    /\ UNCHANGED ilFrame

\* inliner.run(): a Stuck is handed out when the run stops at a missing block
IlRun ==
    /\ ~ilLast.panic
    /\ ~Borrowed(ilHandles)
    /\ IlReturned("run", InlinerRun(policy, doc, store, il))

\* inliner.next(): one step of the iterator
IlNext ==
    /\ ~ilLast.panic
    /\ ~Borrowed(ilHandles)
    /\ IlReturned("next", PolicyNext(policy, doc, store, il))

\* inliner.stuck_at(needs) / Stuck::try_from(&mut inliner) on a wedged inliner
IlStuckAt ==
    /\ ~ilLast.panic
    /\ ~Borrowed(ilHandles)
    /\ il.needs.some
    /\ ilHandles' = Append(ilHandles, StuckAt(il.needs.val))
    /\ ilLast' = IlCall("stuck_at", il, store, None, FALSE, il.needs, None)
    /\ UNCHANGED <<il, store, ilAnswers, ilIdle>>
    /\ UNCHANGED ilFrame

RemoveAt(q, i) == SubSeq(q, 1, i - 1) \o SubSeq(q, i + 1, Len(q))

IlAnswer(kind, needs, splice) ==
    [at |-> StuckPosition(doc, il), kind |-> kind, needs |-> needs, splice |-> splice]

\* stuck.resolve(node)
IlResolve ==
    /\ ~ilLast.panic
    /\ \E i \in DOMAIN ilHandles, n \in IlNodes :
        /\ store' = StuckResolveStore(store, ilHandles[i].needs, n)
        /\ il' = StuckStub(il, ilHandles[i].needs, n)
        /\ ilHandles' = RemoveAt(ilHandles, i)
        /\ ilAnswers' = Append(ilAnswers, IlAnswer("resolve", ilHandles[i].needs,
                                                   InlineWrap(ilHandles[i].needs, n)))
        /\ ilLast' = IlCall("resolve", il, store, None, FALSE,
                            Some(ilHandles[i].needs), Some(n))
    /\ UNCHANGED ilIdle
    /\ UNCHANGED ilFrame

\* stuck.stub(node)
IlStub ==
    /\ ~ilLast.panic
    /\ \E i \in DOMAIN ilHandles, n \in IlNodes :
        /\ il' = StuckStub(il, ilHandles[i].needs, n)
        /\ ilHandles' = RemoveAt(ilHandles, i)
        /\ ilAnswers' = Append(ilAnswers, IlAnswer("stub", ilHandles[i].needs,
                                                   InlineWrap(ilHandles[i].needs, n)))
        /\ ilLast' = IlCall("stub", il, store, None, FALSE,
                            Some(ilHandles[i].needs), Some(n))
    /\ UNCHANGED <<store, ilIdle>>
    /\ UNCHANGED ilFrame

\* stuck.ignore()
IlIgnore ==
    /\ ~ilLast.panic
    /\ \E i \in DOMAIN ilHandles :
        /\ il' = StuckIgnore(il, ilHandles[i].needs)
        /\ ilHandles' = RemoveAt(ilHandles, i)
        /\ ilAnswers' = Append(ilAnswers, IlAnswer("ignore", ilHandles[i].needs,
                                                   Link(ilHandles[i].needs)))
        /\ ilLast' = IlCall("ignore", il, store, None, FALSE,
                            Some(ilHandles[i].needs), None)
    /\ UNCHANGED <<store, ilIdle>>
    /\ UNCHANGED ilFrame

\* a suspension that was dropped is recorded once
IlDropped(a) ==
    IF ilAnswers # <<>> /\ ilAnswers[Len(ilAnswers)] = a THEN ilAnswers
    ELSE Append(ilAnswers, a)

\* drop(stuck): the handle goes away, the inliner is as the run left it
IlDrop ==
    /\ ~ilLast.panic
    /\ \E i \in DOMAIN ilHandles :
        /\ ilHandles' = RemoveAt(ilHandles, i)
        /\ ilAnswers' = IlDropped(IlAnswer("drop", ilHandles[i].needs,
                                           Link(ilHandles[i].needs)))
        /\ ilLast' = IlCall("drop", il, store, None, FALSE,
                            Some(ilHandles[i].needs), None)
    /\ UNCHANGED <<il, store, ilIdle>>
    /\ UNCHANGED ilFrame

NextInline ==
    \/ IlRun
    \/ IlNext
    \/ IlStuckAt
    \/ IlResolve
    \/ IlStub
    \/ IlIgnore
    \/ IlDrop

SpecInline == InitInline /\ [][NextInline]_vars

(***************************************************************************)
(* Reference notions for the inliners                                       *)
(***************************************************************************)
\* the policies that suspend on a missing block and hand out a Stuck
StuckPolicies == {"at_least_once", "exactly_once"}

\* the positions of d that hold a Link, and those that hold Link(cid)
LinkPaths(d) == {p \in AllPaths(d) : NodeAt(d, p).t = "link"}
LinkPathsTo(d, cid) == {p \in LinkPaths(d) : NodeAt(d, p).cid = cid}
AllLinksPresent(d, st) == \A p \in LinkPaths(d) : NodeAt(d, p).cid \in DOMAIN st
\* the resumed suspensions among the answers
Resumed(ans) == {i \in DOMAIN ans : ans[i].kind # "drop"}

\* the wrapper {"/": {"data": data, "link": Link(cid)}}, keys in order
Wrapper(cid, data) ==
    Map(<<Entry("/", Map(<<Entry("data", data), Entry("link", Link(cid))>>))>>)

\* n, which stands at p, with each Link replaced by what a resumed suspension
\* spliced at its position, else by the wrapper of its block if st holds one
RECURSIVE Expanded(_, _, _, _)
Expanded(n, p, st, ans) ==
    IF n.t = "link" THEN
        IF \E i \in Resumed(ans) : ans[i].at = p
        THEN ans[CHOOSE i \in Resumed(ans) : ans[i].at = p].splice
        ELSE IF n.cid \in DOMAIN st THEN Wrapper(n.cid, st[n.cid])
        ELSE n
    ELSE IF n.t = "list" THEN
        List([i \in 1..Len(n.xs) |-> Expanded(n.xs[i], Append(p, i), st, ans)])
    ELSE IF n.t = "map" THEN
        Map([i \in 1..Len(n.kv) |->
                Entry(n.kv[i].k, Expanded(n.kv[i].v, Append(p, i), st, ans))])
    ELSE n

\* a first run on a fresh inliner
FirstRun == ilLast.op = "run" /\ ilLast.pre = InlinerNew

(***************************************************************************)
(* C11: when the store holds a block for every Link of the document, the    *)
(* first run of the at-least-once inliner returns, without handing out a    *)
(* Stuck, the document with every occurrence of every Link(id) replaced by  *)
(* {"/": {"link": Link(id), "data": store.get(id)}} and the rest unchanged. *)
(***************************************************************************)
C11_AllPresentAllExpanded ==
    (policy \in StuckPolicies /\ FirstRun /\ AllLinksPresent(doc, ilLast.store))
    => /\ ~ilLast.panic
       /\ ilHandles = <<>>
       /\ ilLast.out = Some(Ok(Expanded(doc, <<>>, ilLast.store, <<>>)))

\* a document with two Links to the same id and a Link to another, all present
C11_Witness ==
    /\ policy = "at_least_once"
    /\ FirstRun
    /\ AllLinksPresent(doc, ilLast.store)
    /\ Cardinality(LinkPathsTo(doc, CidA)) >= 2
    /\ ilLast.out.some /\ ilLast.out.val.ok

\* no suspension was dropped without an answer
NoDrops == \A i \in DOMAIN ilAnswers : ilAnswers[i].kind # "drop"

\* the positions the walk of inliner s has not yielded yet
RemainingPaths(s) ==
    IF s.inbound # <<>> THEN AllPaths(doc) ELSE {s.outbound[i] : i \in DOMAIN s.outbound}
\* where, in post-order, the walk of s will find a Link whose block st lacks
MissingAhead(s, st) ==
    {i \in DOMAIN PostOrderOf(doc, <<>>) :
        /\ PostOrderOf(doc, <<>>)[i] \in RemainingPaths(s)
        /\ NodeAt(doc, PostOrderOf(doc, <<>>)[i]).t = "link"
        /\ NodeAt(doc, PostOrderOf(doc, <<>>)[i]).cid \notin DOMAIN st}
Least(S) == CHOOSE i \in S : \A j \in S : i <= j
FirstMissing(s, st) == PostOrderOf(doc, <<>>)[Least(MissingAhead(s, st))]

\* the last call was a run that walked: the inliner was not wedged
RunWalked == ilLast.op = "run" /\ ~ilLast.pre.needs.some
ReturnedStuck == ilLast.out.some /\ ~ilLast.out.val.ok

(***************************************************************************)
(* C12: under the at-least-once policy a run returns a Stuck if and only if *)
(* its walk reaches a Link whose id is not in the store; the needs of the   *)
(* handle is the id of the first such Link in post-order, and the store     *)
(* has no block for it.                                                     *)
(***************************************************************************)
C12_StuckIffMissingAhead ==
    (policy \in StuckPolicies /\ RunWalked /\ NoDrops)
    => /\ ~ilLast.panic
       /\ ReturnedStuck <=> MissingAhead(ilLast.pre, ilLast.store) # {}
       /\ ReturnedStuck =>
            /\ ilHandles = <<StuckAt(ilLast.out.val.err)>>
            /\ ilLast.out.val.err =
                    NodeAt(doc, FirstMissing(ilLast.pre, ilLast.store)).cid
            /\ StuckPosition(doc, il) = FirstMissing(ilLast.pre, ilLast.store)
            /\ ilLast.out.val.err \notin DOMAIN store

\* a run resumed after a suspension stops again, at a Link to another id
C12_Witness ==
    /\ policy = "at_least_once"
    /\ RunWalked
    /\ NoDrops
    /\ ilAnswers # <<>>
    /\ ReturnedStuck
    /\ ilAnswers[1].needs # ilLast.out.val.err

\* the last call was a run that returned a final value
ReturnedFinal == ilLast.op = "run" /\ ilLast.out.some /\ ilLast.out.val.ok
AllAnswers(kind) == \A i \in DOMAIN ilAnswers : ilAnswers[i].kind = kind

(***************************************************************************)
(* C13: after Stuck{needs}.resolve(node) the store returns node for needs;  *)
(* when every suspension was answered by resolve and run was called again,  *)
(* the final result has {"/": {"link": Link(needs), "data": node}} at the   *)
(* position of each missing Link and the rest of the document is processed  *)
(* as without a suspension: Links whose block the store holds are expanded, *)
(* everything else is unchanged.                                            *)
(***************************************************************************)
C13_ResolveStoresAndSplices ==
    policy \in StuckPolicies
    => /\ ilLast.op = "resolve"
          => /\ StoreGet(store, ilLast.needs.val) = Ok(ilLast.node.val)
             /\ il.stack = Append(ilLast.pre.stack,
                                  Wrapper(ilLast.needs.val, ilLast.node.val))
             /\ ~il.needs.some
       /\ (ReturnedFinal /\ AllAnswers("resolve"))
          => ilLast.out.val.val = Expanded(doc, <<>>, store, ilAnswers)

\* a suspension at the first of two Links to a missing id was resolved, and
\* the run that followed returned the final value
C13_Witness ==
    /\ policy \in StuckPolicies
    /\ ReturnedFinal
    /\ Len(ilAnswers) = 1
    /\ ilAnswers[1].kind = "resolve"
    /\ Cardinality(LinkPathsTo(doc, ilAnswers[1].needs)) >= 2

(***************************************************************************)
(* C14: Stuck{needs}.stub(node) pushes the wrapper                          *)
(* {"/": {"link": Link(needs), "data": node}} that resolve pushes, and      *)
(* leaves the store as it was: the store still has no block for needs.      *)
(* A run whose suspensions were all answered by stub returns the document   *)
(* with the wrapper at each of their positions.                             *)
(***************************************************************************)
C14_StubSplicesStoreUntouched ==
    /\ ilLast.op = "stub"
       => /\ store = ilLast.store
          /\ StoreGet(store, ilLast.needs.val) = Err(ilLast.needs.val)
          /\ il.stack = Append(ilLast.pre.stack,
                               Wrapper(ilLast.needs.val, ilLast.node.val))
          /\ il = StuckStub(ilLast.pre, ilLast.needs.val, ilLast.node.val)
          /\ ~il.needs.some
    /\ (policy \in StuckPolicies /\ ReturnedFinal /\ AllAnswers("stub"))
       => ilLast.out.val.val = Expanded(doc, <<>>, store, ilAnswers)

\* a stub answered a suspension met after part of the document was rebuilt
C14_Witness ==
    /\ policy = "at_least_once"
    /\ ilLast.op = "stub"
    /\ ilLast.pre.stack # <<>>
    /\ store # StoreNew

\* the walk of inliner s has positions left to yield
WalkUnfinished(s) == s.inbound # <<>> \/ s.outbound # <<>>

(***************************************************************************)
(* C15: when every suspension of a run was answered by ignore() and run     *)
(* was called again, the final result is the document with each Link whose  *)
(* block the store holds expanded and each Link without a block left as     *)
(* Link(id) at its position; with an empty store it is the document itself. *)
(***************************************************************************)
C15_IgnoreLeavesLinks ==
    /\ (policy \in StuckPolicies /\ RunWalked /\ AllAnswers("ignore")
            /\ WalkUnfinished(ilLast.pre))
       => ~ilLast.panic /\ (ReturnedStuck \/ ReturnedFinal)
    /\ (policy \in StuckPolicies /\ ReturnedFinal /\ AllAnswers("ignore"))
       => /\ ilLast.out.val.val = Expanded(doc, <<>>, store, <<>>)
          /\ store = StoreNew => ilLast.out.val.val = doc

\* a suspension was ignored in a document that also has a Link with a block
C15_Witness ==
    /\ policy \in StuckPolicies
    /\ ReturnedFinal
    /\ ilAnswers # <<>>
    /\ AllAnswers("ignore")
    /\ \E p \in LinkPaths(doc) : NodeAt(doc, p).cid \in DOMAIN store

\* the store in which the node of every answer so far was available from the
\* start
RECURSIVE WithAnswers(_, _)
WithAnswers(st, ans) ==
    IF ans = <<>> THEN st
    ELSE WithAnswers((ans[1].needs :> ans[1].splice.kv[1].v.kv[1].v) @@ st, Tail(ans))

\* what a run on a fresh inliner returns when the answers were in the store
FreshOutcome(r) == [out |-> r.out, panic |-> r.panic]
FreshRun == FreshOutcome(InlinerRun(policy, doc, WithAnswers(store, ilAnswers), InlinerNew))

\* the last call was a run that followed suspensions answered by resolve or stub
ResumedWithNodes ==
    /\ policy \in StuckPolicies
    /\ RunWalked
    /\ ilLast.out.some
    /\ ilAnswers # <<>>
    /\ \A i \in DOMAIN ilAnswers : ilAnswers[i].kind \in {"resolve", "stub"}

\* where p stands in the post-order of the document
PostOrderIndex(p) == CHOOSE i \in DOMAIN PostOrderOf(doc, <<>>) : PostOrderOf(doc, <<>>)[i] = p
\* no Link to the id of answer a comes after the position of a
NoLaterLink(a) ==
    \A p \in LinkPathsTo(doc, a.needs) : PostOrderIndex(p) <= PostOrderIndex(a.at)

(***************************************************************************)
(* C16 as stated: a run that suspended at X and was resumed with resolve(n) *)
(* or with stub(n) returns, when run is called again, what a run on a fresh *)
(* inliner returns with X -> n in the store from the start: the same        *)
(* suspension or the same final result.                                     *)
(***************************************************************************)
C16_Original_ResumedAsFresh ==
    ResumedWithNodes => FreshOutcome(ilLast) = FreshRun

(***************************************************************************)
(* C16, amended: the same holds when every answer was a resolve, or a stub  *)
(* at the last Link to its id; after a stub a later Link to the same id     *)
(* suspends the resumed run again.                                          *)
(***************************************************************************)
C16_ResumedAsFreshUnlessStubbedRepeat ==
    (/\ ResumedWithNodes
     /\ \A i \in DOMAIN ilAnswers :
            ilAnswers[i].kind = "stub" => NoLaterLink(ilAnswers[i]))
    => FreshOutcome(ilLast) = FreshRun

\* a stub and then a resolve answered suspensions at two ids, and the run
\* returned the final value
C16_Witness ==
    /\ ResumedWithNodes
    /\ Len(ilAnswers) = 2
    /\ ilAnswers[1].kind = "stub"
    /\ ilAnswers[2].kind = "resolve"
    /\ ilAnswers[1].needs # ilAnswers[2].needs
    /\ ReturnedFinal

(***************************************************************************)
(* An AtLeastOnce restored by Deserialize: the derive accepts any value of  *)
(* the needs field.                                                         *)
(***************************************************************************)
RestoredNeeds == {None, Some(CidA), Some(CidB)}

InitRestored ==
    /\ doc \in IlDocs
    /\ cfg = DefaultConfig
    /\ policy = "at_least_once"
    /\ store \in IlStores
    /\ ConstructedWalks
    /\ il \in {[InlinerNew EXCEPT !.needs = n] : n \in RestoredNeeds}
    /\ ilHandles = <<>>
    /\ ilLast = IlCall("new", il, store, None, FALSE, None, None)
    /\ ilAnswers = <<>>
    /\ ilIdle = 0

SpecRestored == InitRestored /\ [][NextInline]_vars

ClonedStuck(cid, s) == [needs |-> cid, inliner |-> s]

\* inliner.rs 40-85: Inliner::next
RECURSIVE ClonedNext(_, _, _)
\* inliner.rs 79-84: self.stack.pop().expect(..)
ClonedEnd(s) ==
    IF s.stack = <<>> THEN IlResult(s, None, TRUE)
    ELSE IlResult([s EXCEPT !.stack = Front(@)], Some(Ok(Last(s.stack))), FALSE)
\* inliner.rs 43-59: the Link arm
ClonedLink(d, st, s, cid, got) ==
    IF got.ok
    THEN ClonedNext(d, st, [s EXCEPT !.stack = Append(@, InlineWrap(cid, got.val))])
    ELSE IlResult(s, Some(Err(cid)), FALSE)
\* inliner.rs 42-76: match node
ClonedMatch(d, st, s, n) ==
    IF n.t = "link" THEN ClonedLink(d, st, s, n.cid, StoreGet(st, n.cid))
    ELSE IF n.t \in {"map", "list"} THEN
        IF Len(s.stack) < Len(Children(n)) THEN IlResult(s, None, TRUE)
        ELSE ClonedNext(d, st,
                [s EXCEPT !.stack =
                    IF n.t = "map"
                    THEN <<Map(ZipCollect(MapKeys(n), SplitTop(@, Len(Children(n)))))>>
                    ELSE Append(SplitRest(@, Len(Children(n))),
                                List(SplitTop(@, Len(Children(n)))))])
    ELSE ClonedNext(d, st, [s EXCEPT !.stack = Append(@, n)])
\* inliner.rs 41: for node in self.po_cell.get_mut()
ClonedWalked(d, st, s, r) ==
    IF r.item.some
    THEN ClonedMatch(d, st, [s EXCEPT !.inbound = r.inbound, !.outbound = r.outbound],
                     NodeAt(d, r.item.val))
    ELSE ClonedEnd([s EXCEPT !.inbound = r.inbound, !.outbound = r.outbound])
ClonedNext(d, st, s) == ClonedWalked(d, st, s, PostOrderNext(d, s.inbound, s.outbound))

\* inliner.rs 99-106: Stuck::resolve, the Rc having one owner
ClonedResolve(h, ipld) == [h.inliner EXCEPT !.stack = Append(@, ipld)]
\* inliner.rs 108-111: Stuck::ignore
ClonedIgnore(h) == ClonedResolve(h, Link(h.needs))

InitCloned ==
    /\ doc \in IlDocs
    /\ cfg = DefaultConfig
    /\ policy = "cloning"
    /\ store \in IlStores
    /\ ConstructedWalks
    /\ ConstructedInliner

ClReturned(r) ==
    /\ il' = r.state
    /\ ilHandles' = IF ~r.panic /\ r.out.some /\ ~r.out.val.ok
                     THEN Append(ilHandles, ClonedStuck(r.out.val.err, r.state))
                     ELSE ilHandles
    /\ ilLast' = IlCall("next", il, store, r.out, r.panic, None, None)
    /\ UNCHANGED <<store, ilAnswers, ilIdle>>
    /\ UNCHANGED ilFrame

\* inliner.next(): the Stuck it returns holds a clone, the inliner stays with
\* the caller
ClNext ==
    /\ ~ilLast.panic
    /\ ClReturned(ClonedNext(doc, store, il))

\* inliner = stuck.resolve(node).unwrap()
ClResolve ==
    /\ ~ilLast.panic
    /\ \E i \in DOMAIN ilHandles, n \in IlNodes :
        /\ il' = ClonedResolve(ilHandles[i], n)
        /\ ilHandles' = RemoveAt(ilHandles, i)
        /\ ilLast' = IlCall("resolve", il, store, None, FALSE,
                            Some(ilHandles[i].needs), Some(n))
    /\ UNCHANGED <<store, ilAnswers, ilIdle>>
    /\ UNCHANGED ilFrame

\* inliner = stuck.ignore().unwrap()
ClIgnore ==
    /\ ~ilLast.panic
    /\ \E i \in DOMAIN ilHandles :
        /\ il' = ClonedIgnore(ilHandles[i])
        /\ ilHandles' = RemoveAt(ilHandles, i)
        /\ ilLast' = IlCall("ignore", il, store, None, FALSE,
                            Some(ilHandles[i].needs), None)
    /\ UNCHANGED <<store, ilAnswers, ilIdle>>
    /\ UNCHANGED ilFrame

\* drop(stuck)
ClDrop ==
    /\ ~ilLast.panic
    /\ \E i \in DOMAIN ilHandles :
        /\ ilHandles' = RemoveAt(ilHandles, i)
        /\ ilLast' = IlCall("drop", il, store, None, FALSE,
                            Some(ilHandles[i].needs), None)
    /\ UNCHANGED <<il, store, ilAnswers, ilIdle>>
    /\ UNCHANGED ilFrame

NextCloned ==
    \/ ClNext
    \/ ClResolve
    \/ ClIgnore
    \/ ClDrop

SpecCloned == InitCloned /\ [][NextCloned]_vars

(***************************************************************************)
(* C18: there is at most one outstanding Stuck per inliner: while a Stuck   *)
(* is outstanding no second one is obtained and the inliner is not          *)
(* stepped, so after a call on the inliner the only Stuck there can be is   *)
(* the one that call returned.                                              *)
(***************************************************************************)
C18_OneOutstandingStuck ==
    /\ Len(ilHandles) <= 1
    /\ (ilLast.op \in {"run", "next"} /\ ilHandles # <<>>) => ReturnedStuck

(***************************************************************************)
(* C19: under the naive policy the inliner never suspends and never fails:  *)
(* no call returns a missing id or panics, and the run of a fresh inliner   *)
(* returns the document with every Link whose block the store holds         *)
(* expanded and every other Link left as Link(id) at its position.          *)
(***************************************************************************)
C19_NaiveNeverStopsNorFails ==
    policy = "naive"
    => /\ ilLast.op \in {"run", "next"} => ~ilLast.panic /\ ~ReturnedStuck
       /\ FirstRun => ilLast.out = Some(Ok(Expanded(doc, <<>>, ilLast.store, <<>>)))

\* the positions of Links to cid that the value out holds expanded
ExpandedPaths(out, cid) ==
    {p \in LinkPathsTo(doc, cid) : NodeAt(out, p).t = "map"}

(***************************************************************************)
(* C20: under the at-most-once policy, in the final result at most one      *)
(* occurrence of Link(id) is expanded into a wrapper for each id; the later *)
(* occurrences are left as Link(id), even when the store holds a block for  *)
(* id.                                                                      *)
(***************************************************************************)
C20_AtMostOneExpansionPerId ==
    (policy = "at_most_once" /\ ReturnedFinal)
    => \A cid \in {CidA, CidB} :
            Cardinality(ExpandedPaths(ilLast.out.val.val, cid)) <= 1

(***************************************************************************)
(* C21: under the at-most-once policy a run whose walk reaches a Link       *)
(* whose id is neither in the store nor in the seen set returns a Stuck     *)
(* whose needs is that id, and once that suspension has been resumed the    *)
(* id is in the seen set.                                                   *)
(***************************************************************************)
C21_AtMostOnceSuspendsThenSees ==
    policy = "at_most_once"
    => /\ (RunWalked /\ NoDrops /\ ilLast.pre.seen = {}
              /\ MissingAhead(ilLast.pre, ilLast.store) # {})
          => /\ ReturnedStuck
             /\ ilHandles = <<StuckAt(NodeAt(doc, FirstMissing(ilLast.pre, ilLast.store)).cid)>>
       /\ ilLast.op \in {"resolve", "stub", "ignore"} => ilLast.needs.val \in il.seen

(***************************************************************************)
(* Inlining a document and then inlining the result again                   *)
(***************************************************************************)
InitTwice ==
    /\ doc \in IlDocs
    /\ cfg = DefaultConfig
    /\ policy \in IlPolicies
    /\ store \in IlStores
    /\ ConstructedWalks
    /\ ConstructedInliner

\* the caller constructs the inliner of its policy on the document and runs it
TwInline ==
    /\ phase = "new"
    /\ RtInlined(InlinerRun(policy, doc, store, InlinerNew))
    /\ UNCHANGED <<doc, cfg, policy, store, rtPairs, rtPairs2>>
    /\ UNCHANGED walkVars
    /\ UNCHANGED exVars
    /\ UNCHANGED ilVars
    /\ UNCHANGED stVars

\* the caller constructs a new inliner on the value the first one returned and
\* runs it on the same store
TwInlinedAgain(r) ==
    /\ il' = r.state
    /\ ilLast' = IlCall("run", InlinerNew, store, r.out, r.panic, None, None)
    /\ phase' = "again"
TwInlineAgain ==
    /\ phase = "inlined"
    /\ TwInlinedAgain(InlinerRun(policy, rtInlined.val.val, store, InlinerNew))
    /\ UNCHANGED <<doc, cfg, policy, store, rtPairs, rtInlined, rtPairs2>>
    /\ UNCHANGED <<ilHandles, ilAnswers, ilIdle>>
    /\ UNCHANGED walkVars
    /\ UNCHANGED exVars
    /\ UNCHANGED stVars

NextTwice == TwInline \/ TwInlineAgain
SpecTwice == InitTwice /\ [][NextTwice]_vars

(***************************************************************************)
(* C22: at-most-once idempotence: when the at-most-once inliner has         *)
(* returned D' for a document and is run again on D' against the same       *)
(* store, it returns D' unchanged.                                          *)
(***************************************************************************)
C22_AtMostOnceIdempotent ==
    (policy = "at_most_once" /\ phase = "again")
    => ~ilLast.panic /\ ilLast.out = rtInlined

(***************************************************************************)
(* The Store implementations, called directly.                             *)
(***************************************************************************)
MaxCalls == 3

OddCodec == 114

\* ids whose codec tag is Raw and whose codec tag is no IpldCodec
CidRaw == CidNew(Integer(1), RawCodec, Sha2_256, V1)
CidOdd == CidNew(Integer(1), OddCodec, Sha2_256, V1)

StKinds == {"btree", "memory", "at_most_once"}
StCids == {CidA, CidRaw, CidOdd}
StNodes == {Integer(1), Integer(2)}
\* documents whose Extractor emits one id twice, with different nodes
StDocs ==
    { Wrapper(CidA, Integer(2)),
      List(<<Wrapper(CidA, Integer(1)), Wrapper(CidA, Integer(2))>>),
      List(<<Wrapper(CidA, Integer(2)), Wrapper(CidRaw, Integer(1)),
             Wrapper(CidA, Integer(1))>>),
      List(<<Link(CidA), Integer(1)>>) }

\* store/at_most_once.rs 22-31: get of AtMostOnceStore; the other Stores
\* (traits.rs 216-218, memory.rs 37-39) read their BTreeMap
StoreGetOfTombstonesMisses(kind, st, tombs, cid) ==
    IF kind = "at_most_once"
    THEN IF cid \in tombs
         THEN [out |-> Err(cid), tombstones |-> tombs]
         ELSE [out |-> StoreGet(st, cid), tombstones |-> tombs \cup {cid}]
    ELSE [out |-> StoreGet(st, cid), tombstones |-> tombs]
StoreGetOf(kind, st, tombs, cid) ==
    IF kind = "at_most_once"
    THEN IF cid \in tombs
         THEN [out |-> Err(cid), tombstones |-> tombs]
         ELSE LET found == StoreGet(st, cid)
              IN  [out |-> found,
                   tombstones |-> IF found.ok THEN tombs \cup {cid} ELSE tombs]
    ELSE [out |-> StoreGet(st, cid), tombstones |-> tombs]

\* IpldCodec::try_from(u64)
IpldCodecs == {RawCodec, DagPbCodec, DagCborCodec, DagJsonCodec}
IpldCodecTryFrom(tag) == IF tag \in IpldCodecs THEN Ok(tag) ELSE Err(tag)
\* Ipld::encode(IpldCodec, _): Raw encodes Bytes only, DagPb encodes a PbNode only
IpldEncode(ipld, codec) ==
    IF codec \in {DagCborCodec, DagJsonCodec} THEN Ok(<<codec, ipld>>)
    ELSE Err("encode")

NotFound(cid) == [error |-> "NotFound", of |-> cid]
UnknownCodec(tag) == [error |-> "UnknownCodec", of |-> tag]
EncodeFailed(e) == [error |-> "EncodeFailed", of |-> e]

\* store/traits.rs 152-162: get_raw, given what self.get returned
GetRawCodecFirst(cid, got) ==
    LET codec == IpldCodecTryFrom(cid.codec)
    IN  IF ~codec.ok THEN Err(UnknownCodec(codec.err))
        ELSE IF ~got.ok THEN Err(NotFound(got.err))
        ELSE LET buffer == IpldEncode(got.val, codec.val)
             IN  IF ~buffer.ok THEN Err(EncodeFailed(buffer.err)) ELSE Ok(buffer.val)
GetRaw(cid, got) ==
    IF ~got.ok THEN Err(NotFound(got.err))
    ELSE LET codec == IpldCodecTryFrom(cid.codec)
         IN  IF ~codec.ok THEN Err(UnknownCodec(codec.err))
             ELSE LET buffer == IpldEncode(got.val, codec.val)
                  IN  IF ~buffer.ok THEN Err(EncodeFailed(buffer.err))
                      ELSE Ok(buffer.val)

StLogged(op, cid, node, out) == [op |-> op, cid |-> cid, node |-> node, out |-> out]

RECURSIVE StLoggedPuts(_, _)
StLoggedPuts(pairs, i) ==
    IF i > Len(pairs) THEN <<>>
    ELSE <<StLogged("put_keyed", pairs[i].cid, Some(pairs[i].node), None)>>
         \o StLoggedPuts(pairs, i + 1)

stFrame == <<cfg, policy, walkVars, exVars, phase, rtPairs, rtInlined, rtPairs2, ilVars>>

InitStore ==
    /\ doc = Integer(1)
    /\ cfg \in Configs
    /\ policy = "at_least_once"
    /\ store = StoreNew
    /\ \E kind \in StKinds : StoreConstructed(kind)
    /\ ConstructedIters
    /\ ConstructedInliner

\* what a Store call leaves behind
StReturned(op, cid, node, r, st) ==
    /\ stTombstones' = r.tombstones
    /\ stLast' = StCall(op, cid, store, r.out)
    /\ stLog' = Append(stLog, StLogged(op, cid, node, r.out))
    /\ store' = st

\* Store::get
StGet(cid) ==
    /\ Len(stLog) < MaxCalls
    /\ StReturned("get", cid, None, StoreGetOf(stKind, store, stTombstones, cid), store)
    /\ UNCHANGED <<doc, stKind>>
    /\ UNCHANGED stFrame

\* Store::put_keyed: every implementation inserts into its BTreeMap
StPutKeyed(cid, node) ==
    /\ Len(stLog) < MaxCalls
    /\ StReturned("put_keyed", cid, Some(node),
                  [out |-> None, tombstones |-> stTombstones],
                  PutKeyed(store, cid, node))
    /\ UNCHANGED <<doc, stKind>>
    /\ UNCHANGED stFrame

StGotRaw(cid, r) ==
    StReturned("get_raw", cid, None,
               [out |-> GetRaw(cid, r.out), tombstones |-> r.tombstones], store)

\* Store::get_raw
StGetRaw(cid) ==
    /\ Len(stLog) < MaxCalls
    /\ StGotRaw(cid, StoreGetOf(stKind, store, stTombstones, cid))
    /\ UNCHANGED <<doc, stKind>>
    /\ UNCHANGED stFrame

StExtracted(d, r) ==
    /\ ~r.panic
    /\ doc' = d
    /\ store' = StoreExtract(store, d, cfg)
    /\ stLast' = StCall("extract", None, store, Some(r.pairs))
    /\ stLog' = stLog \o StLoggedPuts(r.pairs, 1)

\* Store::extract
StExtract(d) ==
    /\ Len(stLog) < MaxCalls
    /\ StExtracted(d, ExtractorRun(d, cfg))
    /\ UNCHANGED <<stKind, stTombstones>>
    /\ UNCHANGED stFrame

NextStore ==
    \/ \E cid \in StCids : StGet(cid)
    \/ \E cid \in StCids, node \in StNodes : StPutKeyed(cid, node)
    \/ \E cid \in StCids : StGetRaw(cid)
    \/ \E d \in StDocs : StExtract(d)

SpecStore == InitStore /\ [][NextStore]_vars

\* the ids of the pairs, and the node of the last pair with an id
PairIds(pairs) == { pairs[i].cid : i \in DOMAIN pairs }
LastPairWith(pairs, cid) ==
    pairs[CHOOSE i \in DOMAIN pairs :
            /\ pairs[i].cid = cid
            /\ \A j \in DOMAIN pairs : pairs[j].cid = cid => j <= i]
Overwritten(prior, pairs) ==
    [c \in DOMAIN prior \cup PairIds(pairs) |->
        IF c \in PairIds(pairs) THEN LastPairWith(pairs, c).node ELSE prior[c]]

(***************************************************************************)
(* C23: after store.extract(doc, defaults) the store is the prior store    *)
(* overwritten with the pairs the Extractor emits for doc, in emission     *)
(* order: get of an emitted id returns the node of the last pair emitted   *)
(* with that id, and every other id reads as it did before the call.       *)
(***************************************************************************)
C23_ExtractOverwritesInOrder ==
    stLast.op = "extract"
    => LET pairs == ExtractorRun(doc, cfg).pairs
       IN  /\ store = Overwritten(stLast.pre, pairs)
           /\ \A c \in PairIds(pairs) \cup StCids :
                StoreGet(store, c) =
                    IF c \in PairIds(pairs) THEN Ok(LastPairWith(pairs, c).node)
                    ELSE StoreGet(stLast.pre, c)

\* an extract onto a store that holds an emitted id and another id, of a
\* document that emits one id twice with different nodes
C23_Witness ==
    /\ stLast.op = "extract"
    /\ LET pairs == ExtractorRun(doc, cfg).pairs
       IN  /\ \E i, j \in DOMAIN pairs :
                i < j /\ pairs[i].cid = pairs[j].cid /\ pairs[i].node # pairs[j].node
           /\ \E c \in DOMAIN stLast.pre : c \in PairIds(pairs)
                                           /\ stLast.pre[c] # store[c]
           /\ \E c \in DOMAIN stLast.pre : c \notin PairIds(pairs)

\* the put_keyed calls of the log made with an id, by position
PutsOf(log, cid) == { i \in DOMAIN log : log[i].op = "put_keyed" /\ log[i].cid = cid }
LastPutOf(log, cid) == log[CHOOSE i \in PutsOf(log, cid) : \A j \in PutsOf(log, cid) : j <= i]
InMemory == stKind \in {"btree", "memory"}

(***************************************************************************)
(* C24: on the in-memory stores (BTreeMap, MemoryStore), get(c) returns    *)
(* the node of the most recent put_keyed(c, _) if there was one and        *)
(* NotFound carrying c otherwise; put_keyed stores the node under c        *)
(* whether or not c is the content id of the node.                         *)
(***************************************************************************)
C24_GetReturnsLastPut ==
    /\ (InMemory /\ stLast.op = "get")
        => stLast.out = IF PutsOf(stLog, stLast.cid) = {} THEN Err(stLast.cid)
                        ELSE Ok(LastPutOf(stLog, stLast.cid).node.val)
    /\ (InMemory /\ stLast.op = "put_keyed")
        => StoreGet(store, stLast.cid) = Ok(Last(stLog).node.val)

\* a get of an id put twice, last with a node whose content id it is not
C24_Witness ==
    /\ InMemory
    /\ stLast.op = "get"
    /\ Cardinality(PutsOf(stLog, stLast.cid)) >= 2
    /\ stLast.out.ok
    /\ \A c \in Configs :
         stLast.cid # CidNew(stLast.out.val, c.codec, c.digester, c.version)
    /\ \E i \in PutsOf(stLog, stLast.cid) : stLog[i].node.val # stLast.out.val

\* two get calls of the log with the same id and no put_keyed between them
GetsOfFixedContents(log) ==
    { <<i, j>> \in (DOMAIN log) \X (DOMAIN log) :
        /\ i < j
        /\ log[i].op = "get" /\ log[j].op = "get"
        /\ log[i].cid = log[j].cid
        /\ \A k \in i..j : log[k].op # "put_keyed" }

(***************************************************************************)
(* C25: get is referentially transparent for fixed contents: on every      *)
(* Store implementation, two get calls with the same id and no put_keyed   *)
(* between them return the same result.                                    *)
(***************************************************************************)
C25_GetReferentiallyTransparent ==
    \A p \in GetsOfFixedContents(stLog) : stLog[p[1]].out = stLog[p[2]].out

\* the contents st with exactly the binding cid -> node added
WithBinding(st, cid, node) ==
    [c \in DOMAIN st \cup {cid} |-> IF c = cid THEN node ELSE st[c]]

(***************************************************************************)
(* C26: the store is read-only during inlining: every run and next call,   *)
(* one that returns Stuck included, and stub and ignore leave the store    *)
(* contents as they were; the only call of the inliner protocol that       *)
(* writes the store is resolve, and it adds exactly the binding            *)
(* needs -> node.                                                          *)
(***************************************************************************)
C26_OnlyResolveWritesStore ==
    /\ ilLast.op \in {"run", "next", "stub", "ignore"} => store = ilLast.store
    /\ ilLast.op # "resolve" => store = ilLast.store
    /\ ilLast.op = "resolve"
        => store = WithBinding(ilLast.store, ilLast.needs.val, ilLast.node.val)

\* a run that returned Stuck, a resolve onto a store that holds other blocks,
\* and a run after it that returned a value
C26_Witness ==
    /\ ilLast.op = "run"
    /\ ilLast.out.some
    /\ ~ilLast.panic
    /\ \E i \in DOMAIN ilAnswers :
         /\ ilAnswers[i].kind = "resolve"
         /\ DOMAIN store # {ilAnswers[i].needs}
         /\ ilAnswers[i].needs \in DOMAIN store

(***************************************************************************)
(* C27: given a DAG-CBOR or DAG-JSON default codec, the Extractor is       *)
(* total: for every document, digest and id version, iterating it to       *)
(* exhaustion never fails; none of its expectations (a rebuilt data value  *)
(* on the stack, a Link on top of the stack in the explicit form, a        *)
(* successful id construction) is violated.                                *)
(***************************************************************************)
C27_ExtractorTotal ==
    cfg.codec \in {DagCborCodec, DagJsonCodec} => ~exPanic

(***************************************************************************)
(* A caller that holds a Peekable walk and asks is_delimiter_next.         *)
(***************************************************************************)
PkDocs == DocsUpTo(MaxNest - 1)

InitPeek ==
    /\ doc \in PkDocs
    /\ cfg = DefaultConfig
    /\ policy = "at_least_once"
    /\ Constructed

pkFrame == <<doc, cfg, policy, store, walkVars, exStack, exOut, exPanic, conv, rtVars, ilVars, stVars>>

PkReturned(op, r, out) ==
    /\ exIter' = r.iter
    /\ delim' = PkCall(op, exIter, out)
    /\ exEnded' = IF op = "next" /\ ~r.item.some THEN exEnded + 1 ELSE exEnded

\* Peekable::next by the caller
PkNext ==
    /\ exEnded < MaxExtraCalls
    /\ LET r == PeekableNext(doc, exIter) IN PkReturned("next", r, r.item)
    /\ UNCHANGED pkFrame

\* is_delimiter_next(&mut walk) by the caller
PkIsDelimiterNext ==
    /\ exEnded < MaxExtraCalls
    /\ LET r == IsDelimiterNext(doc, exIter)
       IN  PkReturned("is_delimiter_next", r, Some(r.result))
    /\ UNCHANGED pkFrame

NextPeek == PkNext \/ PkIsDelimiterNext
SpecPeek == InitPeek /\ [][NextPeek]_vars

\* what the walk would yield next
YieldsNext(d, it) == PeekableNext(d, it).item
KeySet(n) == { MapKeys(n)[i] : i \in 1..Len(MapKeys(n)) }

(***************************************************************************)
(* C28: is_delimiter_next(walk) returns true if and only if the next node  *)
(* the walk would yield is a Map whose key set is exactly {"/"}; it        *)
(* returns false when the walk is exhausted or the next node is anything   *)
(* else.                                                                   *)
(***************************************************************************)
C28_DelimiterNextIffSlashMap ==
    delim.op = "is_delimiter_next"
    => LET nxt == YieldsNext(doc, delim.before)
       IN  /\ delim.out.val <=> /\ nxt.some
                                /\ NodeAt(doc, nxt.val).t = "map"
                                /\ KeySet(NodeAt(doc, nxt.val)) = {"/"}
           /\ ~nxt.some => ~delim.out.val
           /\ YieldsNext(doc, exIter) = nxt

\* the call answered true in the middle of a walk
C28_Witness ==
    /\ delim.op = "is_delimiter_next"
    /\ delim.out.val
    /\ delim.before.outbound # <<>>
    /\ YieldsNext(doc, delim.before).val # <<>>

(***************************************************************************)
(* The total codecs (built with the dag-cbor and dag-json features) and    *)
(* their multicodec tags.                                                  *)
(***************************************************************************)
MaxTag == 300

Tags == 0..MaxTag
CodecTypes == {"Total", "SafeCodec"}

UnsupportedCodec(ccode) == [error |-> "UnsupportedCodec", of |-> ccode]

\* codec/total.rs 41-55: TryFrom<u64> for Total
TotalTryFromAlsoPb(ccode) ==
    IF ccode = DagPbCodec \/ ccode = DagCborCodec THEN Ok("DagCbor")
    ELSE IF ccode = DagJsonCodec THEN Ok("DagJson")
    ELSE Err(UnsupportedCodec(ccode))
TotalTryFrom(ccode) ==
    IF ccode = DagCborCodec THEN Ok("DagCbor")
    ELSE IF ccode = DagJsonCodec THEN Ok("DagJson")
    ELSE Err(UnsupportedCodec(ccode))
\* codec/total.rs 57-67: From<Total> for u64
TotalInto(mc) == IF mc = "DagCbor" THEN DagCborCodec ELSE DagJsonCodec

\* codec.rs 33-47: TryFrom<u64> for SafeCodec
SafeCodecTryFrom(ccode) ==
    IF ccode = DagCborCodec THEN Ok("DagCbor")
    ELSE IF ccode = DagJsonCodec THEN Ok("DagJson")
    ELSE Err(UnsupportedCodec(ccode))
\* codec.rs 49-59: From<SafeCodec> for u64
SafeCodecInto(mc) == IF mc = "DagCbor" THEN DagCborCodec ELSE DagJsonCodec

CodecTryFrom(type, ccode) ==
    IF type = "Total" THEN TotalTryFrom(ccode) ELSE SafeCodecTryFrom(ccode)
CodecInto(type, mc) ==
    IF type = "Total" THEN TotalInto(mc) ELSE SafeCodecInto(mc)

InitCodec ==
    /\ doc = Integer(1)
    /\ cfg = DefaultConfig
    /\ policy = "at_least_once"
    /\ store = StoreNew
    /\ ConstructedStore
    /\ ConstructedInliner
    /\ inbound = PostOrderNew.inbound
    /\ outbound = PostOrderNew.outbound
    /\ yielded = <<>>
    /\ pastEnd = 0
    /\ exIter = PeekableNew
    /\ exStack = <<>>
    /\ exOut = <<>>
    /\ exEnded = 0
    /\ exPanic = FALSE
    /\ delim = PkCall("new", PeekableNew, None)
    /\ phase = "new"
    /\ rtPairs = <<>>
    /\ rtInlined = None
    /\ rtPairs2 = <<>>
    /\ \E type \in CodecTypes, ccode \in Tags : conv = Conversion(type, ccode, None, None)

cvFrame == <<doc, cfg, policy, store, walkVars, exIter, exStack, exOut, exEnded, exPanic,
             delim, rtVars, ilVars, stVars>>

\* Total::try_from(ccode) / SafeCodec::try_from(ccode)
CvTryFrom ==
    /\ ~conv.tried.some
    /\ conv' = [conv EXCEPT !.tried = Some(CodecTryFrom(conv.type, conv.ccode))]
    /\ UNCHANGED cvFrame

\* u64::from(codec)
CvInto ==
    /\ conv.tried.some
    /\ conv.tried.val.ok
    /\ ~conv.back.some
    /\ conv' = [conv EXCEPT !.back = Some(CodecInto(conv.type, conv.tried.val.val))]
    /\ UNCHANGED cvFrame

NextCodec == CvTryFrom \/ CvInto
SpecCodec == InitCodec /\ [][NextCodec]_vars

(***************************************************************************)
(* C29: converting a multicodec tag to a total codec succeeds exactly for  *)
(* 0x71, giving DAG-CBOR, and 0x0129, giving DAG-JSON, each of which       *)
(* converts back to the same tag; for every other value it returns         *)
(* UnsupportedCodec carrying the tag.                                      *)
(***************************************************************************)
C29_TagConversion ==
    /\ conv.tried.some
        => /\ conv.tried.val.ok <=> conv.ccode \in {113, 297}
           /\ conv.ccode = 113 => conv.tried.val = Ok("DagCbor")
           /\ conv.ccode = 297 => conv.tried.val = Ok("DagJson")
           /\ conv.ccode \notin {113, 297}
                => conv.tried.val = Err([error |-> "UnsupportedCodec", of |-> conv.ccode])
    /\ conv.back.some => conv.back.val = conv.ccode

\* the DAG-JSON tag was converted and converted back
C29_Witness ==
    /\ conv.ccode = 297
    /\ conv.tried.some
    /\ conv.back.some

(***************************************************************************)
(* C30: get_raw(id) returns NotFound(id) whenever the store has no block   *)
(* for id, whatever the codec tag of id is, and returns UnknownCodec(tag)  *)
(* only when the block is present and the codec tag of id is no known      *)
(* codec.                                                                  *)
(***************************************************************************)
C30_GetRawErrors ==
    stLast.op = "get_raw"
    => /\ stLast.cid \notin DOMAIN stLast.pre
            => stLast.out = Err([error |-> "NotFound", of |-> stLast.cid])
       /\ (~stLast.out.ok /\ stLast.out.err.error = "UnknownCodec")
            => /\ stLast.cid \in DOMAIN stLast.pre
               /\ stLast.cid.codec \notin {85, 112, 113, 297}
               /\ stLast.out.err.of = stLast.cid.codec

\* get_raw was asked for an id with an unknown codec tag that the store holds
C30_Witness ==
    /\ stLast.op = "get_raw"
    /\ stLast.cid = CidOdd
    /\ stLast.cid \in DOMAIN stLast.pre
    /\ ~stLast.out.ok
    /\ stLast.out.err.error = "UnknownCodec"

\* the parent position of q, and whether the node at q has been rebuilt into
\* its parent before the walk reaches post-order index k
ParentIndex(q) == PostOrderIndex(Front(q))
PendingAt(j, k) ==
    LET q == PostOrderOf(doc, <<>>)[j]
    IN  j < k /\ (q = <<>> \/ ParentIndex(q) >= k)

\* the rebuilt values, in post-order, of the nodes that precede index k and
\* have not been consumed by a rebuilt parent
RECURSIVE RebuiltPendingFrom(_, _, _, _)
RebuiltPendingFrom(j, k, st, ans) ==
    IF j >= k THEN <<>>
    ELSE (IF PendingAt(j, k)
          THEN <<Expanded(NodeAt(doc, PostOrderOf(doc, <<>>)[j]),
                          PostOrderOf(doc, <<>>)[j], st, ans)>>
          ELSE <<>>)
         \o RebuiltPendingFrom(j + 1, k, st, ans)
RebuiltPending(k, st, ans) == RebuiltPendingFrom(1, k, st, ans)

\* what the walk of inliner s yields next
WalkYieldsNext(s) == PostOrderNext(doc, s.inbound, s.outbound).item
\* the post-order successor of index k
SuccessorOf(k) ==
    IF k < Len(PostOrderOf(doc, <<>>)) THEN Some(PostOrderOf(doc, <<>>)[k + 1]) ELSE None

\* each suspension was answered once: no two answers at one position
AnsweredOnce ==
    \A i, j \in DOMAIN ilAnswers : ilAnswers[i].at = ilAnswers[j].at => i = j

(***************************************************************************)
(* C31: at the moment a suspending inliner returns Stuck for a Link L, its *)
(* rebuild stack holds exactly the rebuilt values of the nodes that        *)
(* precede L in post-order and have not been consumed by a rebuilt parent, *)
(* and its walk stands immediately after L; pushing exactly one value on   *)
(* resume gives the stack the inliner would hold had L been processed in   *)
(* place.                                                                  *)
(***************************************************************************)
C31_StackAtSuspension ==
    (policy \in StuckPolicies /\ RunWalked /\ NoDrops /\ AnsweredOnce
        /\ ~ilLast.panic /\ ReturnedStuck)
    => LET p == StuckPosition(doc, il)
           k == PostOrderIndex(p)
       IN  /\ NodeAt(doc, p) = Link(ilLast.out.val.err)
           /\ il.stack = RebuiltPending(k, store, ilAnswers)
           /\ WalkYieldsNext(il) = SuccessorOf(k)
           /\ \A n \in IlNodes :
                LET resumed == StuckStub(il, ilLast.out.val.err, n)
                    spliced == Append(ilAnswers,
                                      [at |-> p, kind |-> "stub",
                                       needs |-> ilLast.out.val.err,
                                       splice |-> Wrapper(ilLast.out.val.err, n)])
                IN  /\ resumed.stack = RebuiltPending(k + 1, store, spliced)
                    /\ Len(resumed.stack) = Len(il.stack) + 1
                    /\ WalkYieldsNext(resumed) = SuccessorOf(k)

\* a suspension after an earlier one was resumed, with a rebuilt value on the
\* stack whose children were consumed
C31_Witness ==
    /\ policy \in StuckPolicies
    /\ RunWalked /\ NoDrops /\ AnsweredOnce
    /\ ReturnedStuck
    /\ ilAnswers # <<>>
    /\ il.stack # <<>>
    /\ \E j \in 1..PostOrderIndex(StuckPosition(doc, il)) :
            j < PostOrderIndex(StuckPosition(doc, il))
            /\ ~PendingAt(j, PostOrderIndex(StuckPosition(doc, il)))

\* src/src/inliner.rs on documents nested one level deeper
InitClonedDeep ==
    /\ doc \in IlDocsUpTo(MaxNest)
    /\ cfg = DefaultConfig
    /\ policy = "cloning"
    /\ store \in IlStores
    /\ ConstructedWalks
    /\ ConstructedInliner

SpecClonedDeep == InitClonedDeep /\ [][NextCloned]_vars

\* the last call walked the document from its start to its end: no Link on the
\* way lacked a block
WalkedToEnd ==
    /\ ilLast.op \in {"run", "next"}
    /\ ilLast.pre = InlinerNew
    /\ ~WalkUnfinished(il)
    /\ ~ReturnedStuck

(***************************************************************************)
(* C32: when the walk of the inliner is exhausted its rebuild stack holds  *)
(* exactly one entry, the fully inlined root, and that entry is returned:  *)
(* each List or Map rebuild took exactly its children from the top of the  *)
(* stack and pushed one node, leaving the entries below untouched.         *)
(***************************************************************************)
C32_ExhaustedWalkLeavesRoot ==
    (policy \in StuckPolicies \cup {"cloning"} /\ WalkedToEnd)
    => /\ ~ilLast.panic
       /\ ilLast.out = Some(Ok(Expanded(doc, <<>>, store, <<>>)))
       /\ il.stack = <<>>


(***************************************************************************)
(* C33: laziness of PostOrderIpldIter                                       *)
(***************************************************************************)
\* a node without children: what a walk reaches at the end of a descent
IsLeafAt(d, p) == Children(NodeAt(d, p)) = <<>>

\* p is q or lies above q in the document
IsPrefixOf(p, q) == Len(p) <= Len(q) /\ SubSeq(q, 1, Len(p)) = p

\* the paths held in a sequence
PathsIn(s) == {s[i] : i \in DOMAIN s}

\* the nodes next() has taken out of inbound so far
Discovered == PathsIn(yielded) \cup PathsIn(outbound)

\* C33: PostOrderWalk is lazy.  A call of next that yields a node has moved
\* nodes from inbound to outbound only until a leaf came into outbound, and
\* that leaf is the node it returned: no leaf is left waiting in outbound,
\* and when the first node is yielded only the nodes above it have been
\* discovered, the rest of the tree still waiting in inbound.
C33_WalkIsLazy ==
    (Len(yielded) >= 1 /\ pastEnd = 0)
    => /\ \A i \in DOMAIN outbound : ~IsLeafAt(doc, outbound[i])
       /\ Len(yielded) = 1
          => /\ \A p \in Discovered : IsPrefixOf(p, yielded[1])
             /\ (\E p \in PathsIn(PostOrderOf(doc, <<>>)) : ~IsPrefixOf(p, yielded[1]))
                => inbound # <<>>

\* a first call that yielded a leaf of a document with more than one leaf
C33_Witness ==
    /\ Len(yielded) = 1
    /\ pastEnd = 0
    /\ \E p \in PathsIn(PostOrderOf(doc, <<>>)) : ~IsPrefixOf(p, yielded[1])
    /\ inbound = <<>>
    /\ \E i \in DOMAIN outbound : IsLeafAt(doc, outbound[i])


(***************************************************************************)
(* C34: the resume protocol, followed by the caller to the end              *)
(***************************************************************************)
\* The caller of AtLeastOnce::run (at_least_once.rs 62-103) or of
\* Inliner::run on ExactlyOnce (traits.rs 69-74) that answers every Stuck
\* with resolve, stub or ignore (traits.rs 160-231) and then calls run again.
InitResume ==
    /\ doc \in IlDocs
    /\ cfg = DefaultConfig
    /\ policy \in StuckPolicies
    /\ store \in IlStores
    /\ ConstructedWalks
    /\ ConstructedInliner

IlAnswerStuck == IlResolve \/ IlStub \/ IlIgnore

NextResume ==
    \/ IlRun
    \/ IlResolve
    \/ IlStub
    \/ IlIgnore

\* ENABLED <<IlRun>>_vars written out: the guard of IlRun (every call of run
\* changes ilLast or ilIdle)
RunEnabled ==
    /\ ~ilLast.panic
    /\ ~Borrowed(ilHandles)
    /\ (ilIdle < MaxExtraCalls \/ InlinerRun(policy, doc, store, il).out.some)

\* weak fairness of IlRun, with its enabling condition written out
FairRun == <>[]RunEnabled => []<><<IlRun>>_vars

\* The caller goes on: a Stuck that is held is answered (weak fairness of the
\* three answers), and an inliner that is free is run.
FairResume == WF_vars(IlAnswerStuck) /\ FairRun

SpecResume == InitResume /\ [][NextResume]_vars /\ FairResume

\* the Link nodes of a document
LinkNodes(d) == {p \in PathsIn(PostOrderOf(d, <<>>)) : NodeAt(d, p).t = "link"}

\* the Stucks run has returned so far: those answered and the one held
Suspensions == Len(ilAnswers) + Len(ilHandles)

\* run has returned the final value at some call
FinalReturned == ReturnedFinal /\ ~ilLast.panic

\* C34: liveness of the resume protocol.  When every Stuck the inliner
\* returns is answered with resolve, stub or ignore and run is called again,
\* run eventually returns a final value, and up to then it has suspended at
\* most as many times as the input document has Link nodes.
C34_ResumeTerminates ==
    /\ [](Suspensions <= Cardinality(LinkNodes(doc)))
    /\ <>FinalReturned

\* a final value returned after the run had suspended at every Link of a
\* document with two Links
C34_Witness ==
    /\ FinalReturned
    /\ Cardinality(LinkNodes(doc)) >= 2
    /\ Len(ilAnswers) = Cardinality(LinkNodes(doc))
    /\ \E i \in DOMAIN ilAnswers : ilAnswers[i].kind = "ignore"
    /\ \E i \in DOMAIN ilAnswers : ilAnswers[i].kind # "ignore"


(***************************************************************************)
(* C35: one level of expansion                                              *)
(***************************************************************************)
\* the answers that resumed the suspension at position p
AnswersAt(p) == {i \in Resumed(ilAnswers) : ilAnswers[i].at = p}

\* what the inliner may leave at the position p of a Link(cid): the Link
\* itself when the suspension there was ignored, the wrapper of the node the
\* caller supplied when it was resolved or stubbed, else the wrapper of the
\* block the store holds, each with the node as it is
OneLevelAt(p, cid, v, st) ==
    IF AnswersAt(p) # {}
    THEN \E i \in AnswersAt(p) :
            \/ ilAnswers[i].kind = "ignore" /\ v = Link(cid)
            \/ /\ ilAnswers[i].kind \in {"resolve", "stub"}
               /\ \E n \in IlNodes : v = Wrapper(cid, n) /\ ilAnswers[i].splice = v
    ELSE cid \in DOMAIN st /\ v = Wrapper(cid, st[cid])

\* the ids of the Links of the document
LinkIds(d) == {NodeAt(d, p).cid : p \in LinkPaths(d)}

\* a call that returned a value on an inliner used as the protocol allows
ValueReturned ==
    /\ \/ policy \in StuckPolicies /\ ilLast.op = "run"
       \/ policy = "naive" /\ ilLast.op \in {"run", "next"} /\ ilLast.pre = InlinerNew
    /\ NoDrops
    /\ AnsweredOnce
    /\ ~ilLast.panic
    /\ ilLast.out.some

\* C35: the inliner expands one level only.  A run suspends only at a Link
\* of the document, never at a Link inside a block it fetched or a node it
\* was given; and in the value it returns each Link of the document has
\* become the wrapper whose "data" is the fetched block, or the node given
\* to resolve or stub, verbatim: a Link inside that node stays a Link, even
\* when the store holds its block.
C35_OneLevelOnly ==
    ValueReturned
    => IF ilLast.out.val.ok
       THEN \/ policy = "naive" /\ ~AllLinksPresent(doc, store)
            \/ \A p \in LinkPaths(doc) :
                 OneLevelAt(p, NodeAt(doc, p).cid,
                            NodeAtOrMissing(ilLast.out.val.val, p), store)
       ELSE ilLast.out.val.err \in LinkIds(doc)

\* a final value in which a fetched block that is a Link to a stored id
\* stands as it is, after the caller had answered with a node that is a Link
C35_Witness ==
    /\ ValueReturned
    /\ ilLast.out.val.ok
    /\ \E i \in Resumed(ilAnswers) :
          ilAnswers[i].kind \in {"resolve", "stub"}
          /\ ilAnswers[i].splice = Wrapper(ilAnswers[i].needs, Link(CidB))
    /\ \E p \in LinkPaths(doc) :
          /\ AnswersAt(p) = {}
          /\ NodeAt(doc, p).cid \in DOMAIN store
          /\ store[NodeAt(doc, p).cid].t = "link"
          /\ store[NodeAt(doc, p).cid].cid \in DOMAIN store


(***************************************************************************)
(* C36: the Extractor run again on what it emitted                          *)
(***************************************************************************)
\* the run of a second Extractor, with the same settings, on the node n
\* yields one pair, which carries n
ExtractsToItself(n, c) ==
    /\ ~ExtractorRun(n, c).panic
    /\ Len(ExtractorRun(n, c).pairs) = 1
    /\ ExtractorRun(n, c).pairs[1].node = n

\* C36: every node the Extractor emits is free of inline delimiters, so
\* extraction is idempotent on its output: an Extractor with the same
\* settings run on the node of any emitted pair yields exactly one pair,
\* which carries that node unchanged.
C36_EmittedNodesDelimiterFree ==
    \A i \in DOMAIN exOut :
        /\ DelimiterPaths(exOut[i].node) = {}
        /\ ExtractsToItself(exOut[i].node, cfg)

\* a pair whose node had delimiters replaced by Links and extracts to itself
C36_Witness ==
    /\ ~exPanic
    /\ exEnded > 0
    /\ Len(exOut) >= 3
    /\ exOut[Len(exOut)].node # doc
    /\ \A i \in DOMAIN exOut :
        /\ DelimiterPaths(exOut[i].node) = {}
        /\ ExtractsToItself(exOut[i].node, cfg)


(***************************************************************************)
(* C37: calls after the final value                                         *)
(***************************************************************************)
\* the inliner s has handed out its final value: the walk is over and the
\* root has been popped from the stack (a root that is a Link to a missing
\* block also leaves the walk over and the stack empty, with a Stuck)
FinalGiven(s) ==
    /\ ~WalkUnfinished(s)
    /\ s.stack = <<>>
    /\ doc.t = "link" => doc.cid \in DOMAIN ilLast.store

\* C37: the inliner produces its final value exactly once.  A run or next
\* call on an inliner that has returned the fully inlined root returns None,
\* without failing and without changing the inliner.
C37_NoneAfterFinal ==
    (ilLast.op \in {"run", "next"} /\ FinalGiven(ilLast.pre))
    => /\ ~ilLast.panic
       /\ ilLast.out = None
       /\ il = ilLast.pre

\* a call after the final value that returned None, as the inliners of
\* inline_ipld do (SpecInline)
NoneAfterFinalSeen ==
    /\ ilLast.op \in {"run", "next"}
    /\ FinalGiven(ilLast.pre)
    /\ ~ilLast.panic
    /\ ilLast.out = None


(***************************************************************************)
(* C38: the rebuild stack of the Extractor                                  *)
(***************************************************************************)
\* the positions the Extractor has taken from its walk
ExTaken(it) ==
    IF it.inbound # <<>> THEN {}
    ELSE AllPaths(doc) \ (PathsIn(it.outbound) \cup
                          (IF it.peeked.some /\ it.peeked.val.some
                           THEN {it.peeked.val.val} ELSE {}))

\* the walk of the Extractor has nothing left
ExWalkOver(it) == it.inbound = <<>> /\ it.outbound = <<>> /\ ~(it.peeked.some /\ it.peeked.val.some)

\* the taken positions whose parent has not been taken, in post-order: their
\* rebuilt values are what the stack holds for the parents still to come
RECURSIVE ExPendingFrom(_, _, _)
ExPendingFrom(po, j, taken) ==
    IF j > Len(po) THEN <<>>
    ELSE IF po[j] \in taken /\ (po[j] = <<>> \/ Front(po[j]) \notin taken)
         THEN <<Rewritten(NodeAt(doc, po[j]), cfg)>> \o ExPendingFrom(po, j + 1, taken)
         ELSE ExPendingFrom(po, j + 1, taken)
ExPending(it) == ExPendingFrom(PostOrderOf(doc, <<>>), 1, ExTaken(it))

\* the root pair has been returned
RootEmitted == exOut # <<>> /\ ~exOut[Len(exOut)].at.some

\* C38: the stack discipline of the Extractor.  When a call of next returns,
\* the stack holds, in child order, exactly the rebuilt children of the Lists
\* and Maps the walk has still to yield, so that a List or Map with n
\* children finds them as the top n entries and split_off never underflows;
\* when the walk is exhausted the stack holds exactly one entry, the root,
\* which the next call pops and returns.
C38_ExtractorStackDiscipline ==
    /\ ~exPanic
    /\ ~RootEmitted => exStack = ExPending(exIter)
    /\ (ExWalkOver(exIter) /\ ~RootEmitted) => exStack = <<Rewritten(doc, cfg)>>
    /\ RootEmitted
       => /\ ExWalkOver(exIter)
          /\ exStack = <<>>
          /\ exOut[Len(exOut)].node = Rewritten(doc, cfg)
          /\ \A i \in 1..(Len(exOut) - 1) : exOut[i].at.some

\* a call returned a pair while two rebuilt children waited on the stack for
\* a parent that has more children to come
C38_Witness ==
    /\ ~exPanic
    /\ ~ExWalkOver(exIter)
    /\ exOut # <<>>
    /\ Len(exStack) >= 2
    /\ exStack = ExPending(exIter)


(***************************************************************************)
(* C39: AtMostOnceStore                                                     *)
(***************************************************************************)
\* the stores an AtMostOnceStore is made from
AmoStores ==
    {StoreNew} \cup {PutKeyed(StoreNew, cid, Integer(1)) : cid \in StCids}
               \cup {PutKeyed(PutKeyed(StoreNew, CidA, Integer(1)), CidRaw, Integer(2))}

\* at_most_once.rs 12-19: AtMostOnceStore::from(store)
AtMostOnceFrom(st) ==
    /\ store = st
    /\ stKind = "at_most_once"
    /\ stTombstones = {}
    /\ stLast = StCall("from", None, st, None)
    /\ stLog = <<>>

InitAtMostOnce ==
    /\ doc = Integer(1)
    /\ cfg = DefaultConfig
    /\ policy = "at_least_once"
    /\ \E st \in AmoStores : AtMostOnceFrom(st)
    /\ ConstructedIters
    /\ ConstructedInliner

\* any sequence of get and put_keyed calls
NextAtMostOnce ==
    \/ \E cid \in StCids : StGet(cid)
    \/ \E cid \in StCids, node \in StNodes : StPutKeyed(cid, node)

SpecAtMostOnce == InitAtMostOnce /\ [][NextAtMostOnce]_vars

\* the calls of get that returned a block
GotBlock(log) == {i \in DOMAIN log : log[i].op = "get" /\ log[i].out.ok}

\* C39: over any sequence of get and put_keyed calls on an AtMostOnceStore,
\* get(cid) returns a block at most once per cid.  The first get of cid that
\* finds a block returns it and tombstones cid; every later get(cid) returns
\* BlockNotFound(cid), also after a put_keyed(cid, _); a get that fails does
\* not tombstone, so that a block put later is returned once.
C39_AtMostOncePerCid ==
    stKind = "at_most_once"
    => /\ \A i, j \in GotBlock(stLog) : stLog[i].cid = stLog[j].cid => i = j
       /\ stTombstones = {stLog[i].cid : i \in GotBlock(stLog)}
       /\ stLast.op = "get"
          => stLast.out =
                IF \E i \in GotBlock(stLog) : i < Len(stLog) /\ stLog[i].cid = stLast.cid
                THEN Err(stLast.cid)
                ELSE StoreGet(stLast.pre, stLast.cid)
       /\ \A i \in GotBlock(stLog) : \A j \in DOMAIN stLog :
             (i < j /\ stLog[j].op = "get" /\ stLog[j].cid = stLog[i].cid)
             => stLog[j].out = Err(stLog[i].cid)

\* get returned a block, the id was put again, and get returned NotFound
C39_Witness ==
    /\ stKind = "at_most_once"
    /\ Len(stLog) = 3
    /\ stLog[1].op = "get" /\ stLog[1].out.ok
    /\ stLog[2].op = "put_keyed" /\ stLog[2].cid = stLog[1].cid
    /\ stLog[3].op = "get" /\ stLog[3].cid = stLog[1].cid
    /\ stLog[3].out = Err(stLog[1].cid)
    /\ stLog[1].cid \in DOMAIN store
====
